---- MODULE Spec2Model ----
(***************************************************************************)
(* Model of backend/ai_generator.py: AIGenerator.generate_response, the    *)
(* tool-augmented generation loop, with the language model and the tool    *)
(* manager as nondeterministic collaborators; and of the tool layer it     *)
(* depends on (ToolManager, CourseSearchTool, CourseOutlineTool), as the   *)
(* design document and backend/tests describe it.                          *)
(*                                                                         *)
(* Python strings are modelled as sequences of tokens, so that             *)
(* concatenation (f-strings) is \o and the empty string is <<>>.           *)
(***************************************************************************)
EXTENDS Integers, Sequences, FiniteSets, TLC

VARIABLES
    query,                 \* argument: the user's question
    conversation_history,  \* argument: None, or the prior turns as text
    tools,                 \* argument: None, or a list of tool specifications
    tool_manager,          \* argument: None, or the tool executor
    pc,                    \* position in generate_response
    messages,              \* local: the conversation state
    round_count,           \* local: the round counter
    response,              \* local: the last reply received from the model
    block_idx,             \* _execute_tools: position of `for block in response.content`
    tool_results,          \* _execute_tools: results collected so far
    has_error,             \* _execute_tools: error flag
    requests,              \* observation: every client.messages.create call, in order
    replies,               \* observation: every reply client.messages.create returned
    dispatched,            \* observation: every tool_manager.execute_tool call, in order
    issued,                \* environment: number of call identifiers the model has issued
    outcome,               \* "running", "returned" or "raised"
    result,                \* the value returned by generate_response
    registry,              \* ToolManager.tools: the registered tools, in registration order
    reg_log,               \* observation: the names of all register_tool calls, in order
    fpc,                   \* position of the facade's query: "idle" or "running"
    fresh,                 \* observation: the tools executed in the running query
    returned,              \* the sources the facade returned for its last query
    tool_text,             \* the text the last tool execution returned
    exec_log,              \* observation: the latest direct executions of the search tool
    calls,                 \* two calls of generate_response on one generator: each call's
                           \* arguments and locals
    gen                    \* the generator instance the two calls share (self)

toolvars == <<registry, reg_log, fpc, fresh, returned, tool_text, exec_log>>

callvars == <<calls, gen>>

vars == <<query, conversation_history, tools, tool_manager, pc, messages,
          round_count, response, block_idx, tool_results, has_error,
          requests, replies, dispatched, issued, outcome, result, toolvars,
          callvars>>

args == <<query, conversation_history, tools, tool_manager>>

----------------------------------------------------------------------------
(* Bounds of the model *)

\* Number of content blocks the model returns over one query, all replies
\* together; a single reply may use up whatever is left.
MaxBlocks == 4
MaxUnknownBlocks == 1

\* Passages in one result of the retrieval backend.
MaxPassages == 2
\* Calls of register_tool.
MaxRegistrations == 3
\* Tool executions in one query of the facade.
MaxDispatches == 2

----------------------------------------------------------------------------
(* Program constants *)

MAX_TOOL_ROUNDS == 2

SYSTEM_PROMPT == <<"SYSTEM_PROMPT">>

\* Python's None, and Python's truth test of an optional string or list.
None == <<"None">>
Truthy(x) == x /= None /\ x /= <<>>

base_params == [model |-> <<"model">>, temperature |-> 0, max_tokens |-> 800]

----------------------------------------------------------------------------
(* The collaborators' values *)

Texts == {<<>>, <<"a">>}
ToolNames == {"search_course_content"}
ToolInputs == {[query |-> <<"x">>]}
StopReasons == {"tool_use", "end_turn", "max_tokens"}
UnknownStopReasons == {"unknown"}
ToolReturns == {<<"r">>}
ToolFaults == {<<"boom">>}

Queries == {<<"q">>}
Histories == {None}
ToolLists == {None, <<"search_course_content">>}
ToolManagers == {None, <<"tool_manager">>}

\* The wider argument values of SpecArgs: the empty string and the empty list
\* beside None.
AllQueries == {<<>>, <<"q">>}
AllHistories == {None, <<>>, <<"h">>}
AllToolLists == {None, <<>>, <<"search_course_content">>}

\* A ToolManager() on which no tool was registered, and the tool managers of
\* SpecRegistry.
EmptyToolManager == <<"ToolManager()">>

\* A tool manager whose search tool finds the retrieval backend failing:
\* every search it runs gets an error inside the result.
BackendDownManager == <<"ToolManager(backend down)">>
RegistryManagers == {<<"tool_manager">>, EmptyToolManager, BackendDownManager}

TextBlock(t) == [type |-> "text", text |-> t]
ToolUseBlock(id, name, input) ==
    [type |-> "tool_use", id |-> id, name |-> name, input |-> input]

\* Blocks as the model writes them, before a call identifier is attached.
BlockShapes ==
    {TextBlock(t) : t \in Texts}
        \cup {ToolUseBlock(0, n, a) : n \in ToolNames, a \in ToolInputs}

ContentShapes(len) == UNION {[1..n -> BlockShapes] : n \in 0..len}

IsToolUse(block) == block.type = "tool_use"
ToolUseCount(seq) == Cardinality({i \in 1..Len(seq) : IsToolUse(seq[i])})

\* The model gives every tool invocation a fresh call identifier.
Stamp(shape, base) ==
    [i \in 1..Len(shape) |->
        IF IsToolUse(shape[i])
        THEN [shape[i] EXCEPT !.id = base + ToolUseCount(SubSeq(shape, 1, i))]
        ELSE shape[i]]

RECURSIVE BlocksIn(_)
BlocksIn(rs) == IF rs = <<>> THEN 0 ELSE Len(Head(rs).content) + BlocksIn(Tail(rs))

\* What client.messages.create may return after the replies `rs`.
Replies(rs, base) ==
    {[stop_reason |-> s, content |-> Stamp(c, base)] :
        s \in StopReasons, c \in ContentShapes(MaxBlocks - BlocksIn(rs))}
    \cup
    {[stop_reason |-> s, content |-> Stamp(c, base)] :
        s \in UnknownStopReasons,
        c \in {k \in ContentShapes(MaxBlocks - BlocksIn(rs)) : Len(k) <= MaxUnknownBlocks}}

NoResponse == [stop_reason |-> "", content |-> <<>>]

----------------------------------------------------------------------------
(* The retrieval backend, as the tools see it *)

\* The metadata of a passage: a course title and, for some passages, a
\* lesson number.
Metas ==
    {[course_title |-> <<"T">>],
     [course_title |-> <<"T">>, lesson_number |-> 1]}

Documents == {<<"d">>}

\* SearchResults(documents, metadata, distances, error=None)
SearchResults(docs, metas, err) ==
    [documents |-> docs, metadata |-> metas, error |-> err]

\* What VectorStore.search may return: an error inside the result, no
\* passage, or up to MaxPassages passages.
BackendErrors == {<<"Search error: Connection failed">>}
BackendResults ==
    {SearchResults(<<>>, <<>>, e) : e \in BackendErrors}
    \cup UNION {{SearchResults(d, m, None) : d \in [1..n -> Documents], m \in [1..n -> Metas]} :
                    n \in 0..MaxPassages}

\* What get_lesson_link and get_course_link resolve to during one execution:
\* a link or None.
LinkStores ==
    {[lesson |-> l, course |-> c] :
        l \in {None, <<"lesson-link">>}, c \in {None, <<"course-link">>}}

\* The keyword arguments of CourseSearchTool.execute: the query and the
\* optional filters.
SearchQueries == {<<"q1">>, <<"q2">>}
CourseFilters == {<<"c">>}
LessonFilters == {0}
SearchArgs ==
    LET base == {[query |-> q] : q \in SearchQueries}
        withCourse == base \cup {[course_name |-> c] @@ b : c \in CourseFilters, b \in base}
    IN  withCourse \cup {[lesson_number |-> n] @@ b : n \in LessonFilters, b \in withCourse}

\* What get_course_outline may return: None, here a record without a title,
\* or the outline of the course.
Outlines ==
    {[found |-> FALSE],
     [found |-> TRUE, title |-> <<"T">>, course_link |-> <<"course-link">>,
      lessons |-> <<[lesson_number |-> 0, lesson_title |-> <<"Introduction">>],
                    [lesson_number |-> 1, lesson_title |-> <<"Why">>]>>]}

----------------------------------------------------------------------------
(* CourseSearchTool and CourseOutlineTool *)

HasLesson(meta) == "lesson_number" \in DOMAIN meta

\* The text of a passage's header and of its citation: the course title and,
\* when the passage has a lesson number, the lesson segment.
source_text(meta) ==
    IF HasLesson(meta)
    THEN meta.course_title \o <<" - Lesson ", ToString(meta.lesson_number)>>
    ELSE meta.course_title

\* The bracketed header of a passage in the rendered text.
header(meta) == <<"[">> \o source_text(meta) \o <<"]">>

\* The link of a passage's citation: the lesson's link, else the course's
\* link, else none.
source_link(meta, links) ==
    IF HasLesson(meta) /\ links.lesson /= None
    THEN links.lesson
    ELSE links.course

\* Mutant: a citation is built for the first passage only.
sources_of_first_only(results, links) ==
    [i \in 1..(IF Len(results.documents) > 0 THEN 1 ELSE 0) |->
        [text |-> source_text(results.metadata[i]),
         link |-> source_link(results.metadata[i], links)]]

\* One citation per passage, in passage order.
sources_of(results, links) ==
    [i \in 1..Len(results.documents) |->
        [text |-> source_text(results.metadata[i]),
         link |-> source_link(results.metadata[i], links)]]

\* "\n\n".join of the passages, each under its header.
RECURSIVE format_passages(_, _)
format_passages(results, i) ==
    IF i > Len(results.documents)
    THEN <<>>
    ELSE (IF i > 1 THEN <<"\n\n">> ELSE <<>>)
            \o header(results.metadata[i]) \o <<"\n">> \o results.documents[i]
            \o format_passages(results, i + 1)

\* Mutant: the message for an empty result names no filter.
filter_info_none(kwargs) == <<>>

\* The filters echoed in the message for an empty result.
filter_info(kwargs) ==
    (IF "course_name" \in DOMAIN kwargs
     THEN <<" in course '">> \o kwargs.course_name \o <<"'">>
     ELSE <<>>)
    \o
    (IF "lesson_number" \in DOMAIN kwargs
     THEN <<" in lesson ", ToString(kwargs.lesson_number)>>
     ELSE <<>>)

\* Mutant: a backend error is raised instead of returned.
search_error_raises(results) ==
    [raised |-> TRUE, text |-> results.error, sources |-> <<>>]

\* The outcome of CourseSearchTool.execute for a backend error.
search_error(results) ==
    [raised |-> FALSE, text |-> results.error, sources |-> <<>>]

\* CourseSearchTool.execute(query, course_name, lesson_number): the text it
\* returns and the citations it leaves in last_sources.
search_execute(kwargs, results, links) ==
    IF results.error /= None
    THEN search_error(results)
    ELSE IF results.documents = <<>>
    THEN [raised |-> FALSE,
          text |-> <<"No relevant content found">> \o filter_info(kwargs) \o <<".">>,
          sources |-> <<>>]
    ELSE [raised |-> FALSE,
          text |-> format_passages(results, 1),
          sources |-> sources_of(results, links)]

\* CourseOutlineTool.execute(course_name): the text it returns.
outline_execute(course_name, outline) ==
    IF ~outline.found
    THEN <<"No course found matching '">> \o course_name \o <<"'">>
    ELSE <<"Course: ">> \o outline.title \o <<"\nLink: ">> \o outline.course_link
            \o <<"\nLessons:">>
            \o <<"\n", ToString(outline.lessons[1].lesson_number), ". ">>
            \o outline.lessons[1].lesson_title
            \o <<"\n", ToString(outline.lessons[2].lesson_number), ". ">>
            \o outline.lessons[2].lesson_title

----------------------------------------------------------------------------
(* ToolManager *)

\* The tools that can be registered: the search tool, the outline tool and a
\* further tool that keeps citations, each as a fresh instance numbered by
\* the register_tool call that brings it in.
CourseSearchTool(inst) ==
    [name |-> "search_course_content", inst |-> inst, last_sources |-> <<>>]
CourseOutlineTool(inst) ==
    [name |-> "get_course_outline", inst |-> inst]
OtherSearchTool(inst) ==
    [name |-> "search_notes", inst |-> inst, last_sources |-> <<>>]
NewTools(inst) == {CourseSearchTool(inst), CourseOutlineTool(inst), OtherSearchTool(inst)}

RegistrableNames == {"search_course_content", "get_course_outline", "search_notes"}

\* hasattr(tool, "last_sources")
KeepsSources(tool) == "last_sources" \in DOMAIN tool

\* The position of a name in the registry, 0 when it is absent.
IndexOf(reg, name) ==
    IF \E i \in 1..Len(reg) : reg[i].name = name
    THEN CHOOSE i \in 1..Len(reg) : reg[i].name = name
    ELSE 0

\* Mutant: a tool of a name already registered is added beside the old one.
register_tool_beside(reg, tool) == Append(reg, tool)

\* ToolManager.register_tool: the tool is stored under its name, in place of
\* a tool of the same name.
register_tool(reg, tool) ==
    IF IndexOf(reg, tool.name) = 0
    THEN Append(reg, tool)
    ELSE [reg EXCEPT ![IndexOf(reg, tool.name)] = tool]

\* ToolManager.get_tool_definitions
get_tool_definitions(reg) == [i \in 1..Len(reg) |-> [name |-> reg[i].name]]

\* Mutant: the sources of the first tool that has any.
RECURSIVE get_last_sources_first(_)
get_last_sources_first(reg) ==
    IF reg = <<>>
    THEN <<>>
    ELSE IF KeepsSources(Head(reg)) /\ Head(reg).last_sources /= <<>>
    THEN Head(reg).last_sources
    ELSE get_last_sources_first(Tail(reg))

\* ToolManager.get_last_sources: the sources of all tools, in registration
\* order.
RECURSIVE get_last_sources(_)
get_last_sources(reg) ==
    IF reg = <<>>
    THEN <<>>
    ELSE (IF KeepsSources(Head(reg)) THEN Head(reg).last_sources ELSE <<>>)
            \o get_last_sources(Tail(reg))

\* ToolManager.reset_sources: every tool that keeps sources discards them.
reset_sources(reg) ==
    [i \in 1..Len(reg) |->
        IF KeepsSources(reg[i])
        THEN [reg[i] EXCEPT !.last_sources = <<>>]
        ELSE reg[i]]

\* Mutant: the new citations are added to the ones of the call before.
store_sources_appended(old, new) == old \o new

\* `self.last_sources = sources`
store_sources(old, new) == new

\* Mutant: the outline tool records its course as a citation.
after_outline_cites(reg, i) ==
    [reg EXCEPT ![1] = IF KeepsSources(reg[1])
                       THEN [reg[1] EXCEPT !.last_sources =
                                <<[text |-> <<"T">>, link |-> None]>>]
                       ELSE reg[1]]

\* The registry after the outline tool at position i was executed.
after_outline(reg, i) == reg

\* The registry as RAGSystem sets it up: the search tool and the outline
\* tool.
StartupRegistry == <<CourseSearchTool(1), CourseOutlineTool(2)>>

\* The tool layer at rest, with the startup registry.
Startup ==
    /\ registry = StartupRegistry
    /\ reg_log = <<"search_course_content", "get_course_outline">>
    /\ fpc = "idle"
    /\ fresh = [n |-> 0, cites |-> {}]
    /\ returned = <<>>
    /\ tool_text = <<>>
    /\ exec_log = <<>>
    /\ calls = <<>>
    /\ gen = [base_params |-> base_params]

----------------------------------------------------------------------------
(* AIGenerator *)

\* Mutant: the history is formatted into the system content untested.
system_content_unchecked(history) ==
    SYSTEM_PROMPT \o <<"\n\nPrevious conversation:\n">> \o history

system_content(history) ==
    IF Truthy(history)
    THEN SYSTEM_PROMPT \o <<"\n\nPrevious conversation:\n">> \o history
    ELSE SYSTEM_PROMPT

\* Mutant: the tools keys are set whatever the tool list is.
api_params_tools_unchecked(msgs, history, tls) ==
    [tools |-> tls, tool_choice |-> [type |-> "auto"]]
        @@ [messages |-> msgs, system |-> system_content(history)]
        @@ base_params

\* api_params of a request inside the loop.
api_params(msgs, history, tls) ==
    IF Truthy(tls)
    THEN [tools |-> tls, tool_choice |-> [type |-> "auto"]]
            @@ [messages |-> msgs, system |-> system_content(history)]
            @@ base_params
    ELSE [messages |-> msgs, system |-> system_content(history)] @@ base_params

\* Mutant: the request after the loop is built like the ones inside it.
final_params_with_tools(msgs, history) == api_params(msgs, history, tools)

\* final_params of the request after the loop.
final_params(msgs, history) ==
    [messages |-> msgs, system |-> system_content(history)] @@ base_params

\* Mutant: the loop also ends after a round with an error
\* (`while round_count < MAX_TOOL_ROUNDS and not has_error`).
LoopCond_stops_on_error(rc) == rc < MAX_TOOL_ROUNDS /\ ~has_error

\* Mutant: the loop never tests the round counter.
LoopCond_forever(rc) == TRUE

\* Mutant: an off-by-one loop test.
LoopCond_off_by_one(rc) == rc <= MAX_TOOL_ROUNDS

\* `while round_count < MAX_TOOL_ROUNDS`
LoopCond(rc) == rc < MAX_TOOL_ROUNDS

\* Mutant: the reply counts as a tool request as soon as it holds a tool_use
\* block, whatever its stop reason.
WantsTools_by_content(reply) ==
    reply.stop_reason = "tool_use" \/ ToolUseCount(reply.content) > 0

\* Mutant: a tool_use reply counts as a tool request only when it holds a
\* tool_use block.
WantsTools_needs_blocks(reply) ==
    reply.stop_reason = "tool_use" /\ ToolUseCount(reply.content) > 0

\* Mutant: only end_turn counts as a reply without tool request.
WantsTools_unless_end_turn(reply) == reply.stop_reason /= "end_turn"

\* `response.stop_reason != "tool_use"` is the exit test; this is its negation.
WantsTools(reply) == reply.stop_reason = "tool_use"

\* Mutant: the test for a missing tool manager is left out.
NoToolManager_unchecked(tm) == FALSE

\* `if not tool_manager`
NoToolManager(tm) == ~Truthy(tm)

FirstTextIdx(content) ==
    CHOOSE i \in 1..Len(content) :
        /\ "text" \in DOMAIN content[i]
        /\ \A j \in 1..(i - 1) : "text" \notin DOMAIN content[j]

\* Mutant: only the first block is looked at (response.content[0].text).
_extract_text_first_block(resp) ==
    IF Len(resp.content) > 0 /\ "text" \in DOMAIN resp.content[1]
    THEN resp.content[1].text
    ELSE <<"Unable to generate a response.">>

_extract_text(resp) ==
    IF Len(resp.content) > 0 /\ \E i \in 1..Len(resp.content) : "text" \in DOMAIN resp.content[i]
    THEN resp.content[FirstTextIdx(resp.content)].text
    ELSE <<"Unable to generate a response.">>

\* Mutant: an empty query is replaced before it is sent.
Entry_empty_query_replaced ==
    /\ pc = "loop"
    /\ messages = <<[role |-> "user",
                     content |-> IF query = <<>> THEN <<"(no question)">> ELSE query]>>
    /\ round_count = 0
    /\ response = NoResponse
    /\ block_idx = 0
    /\ tool_results = <<>>
    /\ has_error = FALSE
    /\ requests = <<>>
    /\ replies = <<>>
    /\ dispatched = <<>>
    /\ issued = 0
    /\ outcome = "running"
    /\ result = None

\* The state after lines 85-96, whatever the arguments.
Entry ==
    /\ pc = "loop"
    /\ messages = <<[role |-> "user", content |-> query]>>
    /\ round_count = 0
    /\ response = NoResponse
    /\ block_idx = 0
    /\ tool_results = <<>>
    /\ has_error = FALSE
    /\ requests = <<>>
    /\ replies = <<>>
    /\ dispatched = <<>>
    /\ issued = 0
    /\ outcome = "running"
    /\ result = None

Init ==
    /\ query \in Queries
    /\ conversation_history \in Histories
    /\ tools \in ToolLists
    /\ tool_manager \in ToolManagers
    /\ Entry
    /\ Startup

\* The same call with every combination of present, empty and absent
\* arguments.
InitArgs ==
    /\ query \in AllQueries
    /\ conversation_history \in AllHistories
    /\ tools \in AllToolLists
    /\ tool_manager \in ToolManagers
    /\ Entry
    /\ Startup

\* The same call with a tool manager whose registry may be empty.
InitRegistry ==
    /\ query \in Queries
    /\ conversation_history \in Histories
    /\ tools = <<"search_course_content">>
    /\ tool_manager \in RegistryManagers
    /\ Entry
    /\ Startup

Return(value) ==
    /\ pc' = "done"
    /\ outcome' = "returned"
    /\ result' = value

\* Mutant: the fault of the model call is caught and the fallback returned.
Raise_caught ==
    /\ pc' = "done"
    /\ outcome' = "returned"
    /\ result' = <<"Unable to generate a response.">>

\* client.messages.create raises: nothing in generate_response catches it.
Raise ==
    /\ pc' = "done"
    /\ outcome' = "raised"
    /\ result' = None

\* One pass of the while loop up to the call of _execute_tools.
CallModel ==
    /\ pc = "loop"
    /\ LoopCond(round_count)
    /\ requests' = Append(requests, api_params(messages, conversation_history, tools))
    /\ \/ /\ Raise
          /\ UNCHANGED <<response, replies, issued, block_idx, tool_results, has_error>>
       \/ \E reply \in Replies(replies, issued) :
            /\ response' = reply
            /\ replies' = Append(replies, reply)
            /\ issued' = issued + ToolUseCount(reply.content)
            /\ IF ~WantsTools(reply)
               THEN /\ Return(_extract_text(reply))
                    /\ UNCHANGED <<block_idx, tool_results, has_error>>
               ELSE IF NoToolManager(tool_manager)
               THEN /\ Return(_extract_text(reply))
                    /\ UNCHANGED <<block_idx, tool_results, has_error>>
               ELSE /\ pc' = "tools"
                    /\ block_idx' = 1
                    /\ tool_results' = <<>>
                    /\ has_error' = FALSE
                    /\ UNCHANGED <<outcome, result>>
    /\ UNCHANGED <<args, toolvars, callvars, messages, round_count, dispatched>>

\* The tool names a tool manager has registered: the manager of the
\* application holds the search tool, a fresh ToolManager() holds none.
RegisteredTools(tm) == IF tm = EmptyToolManager THEN {} ELSE ToolNames

\* What execute_tool returns for a name that is not registered.
ToolNotFound(name) == <<"Tool '", name, "' not found">>

\* What the search tool does with a tool_use block when the backend reports
\* an error inside its result.
BackendDownOutcomes(block) ==
    {search_execute(block.input, results, links) :
        results \in {r \in BackendResults : r.error /= None}, links \in LinkStores}

\* What tool_manager.execute_tool(block.name, **block.input) may return, and
\* what it may raise.
DispatchReturns(tm, block) ==
    IF tm = BackendDownManager
    THEN {out.text : out \in {o \in BackendDownOutcomes(block) : ~o.raised}}
    ELSE ToolReturns
DispatchFaults(tm, block) ==
    IF tm = BackendDownManager
    THEN {out.text : out \in {o \in BackendDownOutcomes(block) : o.raised}}
    ELSE ToolFaults

\* Mutant: the result of a dispatch is flagged as an error.
tool_result_flagged(block, value) ==
    [type |-> "tool_result", tool_use_id |-> block.id, content |-> value,
     is_error |-> TRUE]

\* Mutant: the result carries the identifier of the invocation before.
tool_result_previous_id(block, value) ==
    [type |-> "tool_result", tool_use_id |-> block.id - 1, content |-> value]

tool_result(block, value) ==
    [type |-> "tool_result", tool_use_id |-> block.id, content |-> value]

\* Mutant: the substituted result is not flagged as an error.
tool_result_error_unflagged(block, e) ==
    [type |-> "tool_result", tool_use_id |-> block.id,
     content |-> <<"Error executing tool: ">> \o e]

tool_result_error(block, e) ==
    [type |-> "tool_result", tool_use_id |-> block.id,
     content |-> <<"Error executing tool: ">> \o e, is_error |-> TRUE]

\* Mutant: each result is put in front of the ones collected so far.
append_result_in_front(results, r) == <<r>> \o results

\* tool_results.append(...) of _execute_tools.
append_result(results, r) == Append(results, r)

\* Mutant: a fault ends the for loop (a `break` in the except branch).
NextBlock_break_on_fault(idx, raised, len) == IF raised THEN len + 1 ELSE idx + 1

\* The for loop moves to the next block whatever the dispatch did.
NextBlock(idx, raised, len) == idx + 1

\* One iteration of `for block in response.content` in _execute_tools.
ExecuteToolBlock ==
    /\ pc = "tools"
    /\ block_idx <= Len(response.content)
    /\ LET block == response.content[block_idx] IN
        \/ /\ ~IsToolUse(block)
           /\ block_idx' = NextBlock(block_idx, FALSE, Len(response.content))
           /\ UNCHANGED <<tool_results, has_error, dispatched>>
        \/ /\ IsToolUse(block)
           /\ block.name \notin RegisteredTools(tool_manager)
           /\ tool_results' = append_result(tool_results,
                    tool_result(block, ToolNotFound(block.name)))
           /\ dispatched' = Append(dispatched,
                    [id |-> block.id, name |-> block.name, input |-> block.input,
                     raised |-> FALSE, value |-> ToolNotFound(block.name)])
           /\ block_idx' = NextBlock(block_idx, FALSE, Len(response.content))
           /\ UNCHANGED has_error
        \/ /\ IsToolUse(block)
           /\ block.name \in RegisteredTools(tool_manager)
           /\ \E value \in DispatchReturns(tool_manager, block) :
                /\ tool_results' = append_result(tool_results, tool_result(block, value))
                /\ dispatched' = Append(dispatched,
                        [id |-> block.id, name |-> block.name, input |-> block.input,
                         raised |-> FALSE, value |-> value])
                /\ block_idx' = NextBlock(block_idx, FALSE, Len(response.content))
                /\ UNCHANGED has_error
        \/ /\ IsToolUse(block)
           /\ block.name \in RegisteredTools(tool_manager)
           /\ \E e \in DispatchFaults(tool_manager, block) :
                /\ tool_results' = append_result(tool_results, tool_result_error(block, e))
                /\ dispatched' = Append(dispatched,
                        [id |-> block.id, name |-> block.name, input |-> block.input,
                         raised |-> TRUE, value |-> e])
                /\ block_idx' = NextBlock(block_idx, TRUE, Len(response.content))
                /\ has_error' = TRUE
    /\ UNCHANGED <<args, toolvars, callvars, pc, messages, round_count, response, requests, replies, issued,
                   outcome, result>>

\* Mutant: the assistant turn keeps the tool_use blocks of the reply only.
AppendRound_invocations_only(msgs, resp, results) ==
    msgs \o <<[role |-> "assistant", content |-> SelectSeq(resp.content, IsToolUse)],
              [role |-> "user", content |-> results]>>

\* Mutant: the user turn of the round is appended without its results.
AppendRound_results_dropped(msgs, resp, results) ==
    msgs \o <<[role |-> "assistant", content |-> resp.content],
              [role |-> "user", content |-> <<>>]>>

\* Mutant: the round's turns replace the conversation after the query.
AppendRound_overwrite(msgs, resp, results) ==
    <<msgs[1], [role |-> "assistant", content |-> resp.content],
               [role |-> "user", content |-> results]>>

\* The two turns a round appends to the conversation.
AppendRound(msgs, resp, results) ==
    msgs \o <<[role |-> "assistant", content |-> resp.content],
              [role |-> "user", content |-> results]>>

\* _execute_tools returns; the rest of the loop body.
FinishRound ==
    /\ pc = "tools"
    /\ block_idx > Len(response.content)
    /\ messages' = AppendRound(messages, response, tool_results)
    /\ round_count' = round_count + 1
    /\ pc' = "loop"
    /\ UNCHANGED <<args, toolvars, callvars, response, block_idx, tool_results, has_error, requests,
                   replies, dispatched, issued, outcome, result>>

\* The request after the loop, without tools.
ForcedFinalCall ==
    /\ pc = "loop"
    /\ ~LoopCond(round_count)
    /\ requests' = Append(requests, final_params(messages, conversation_history))
    /\ \/ /\ Raise
          /\ UNCHANGED <<response, replies, issued>>
       \/ \E reply \in Replies(replies, issued) :
            /\ response' = reply
            /\ replies' = Append(replies, reply)
            /\ issued' = issued + ToolUseCount(reply.content)
            /\ Return(_extract_text(reply))
    /\ UNCHANGED <<args, toolvars, callvars, messages, round_count, block_idx, tool_results, has_error,
                   dispatched>>

Next ==
    \/ CallModel
    \/ ExecuteToolBlock
    \/ FinishRound
    \/ ForcedFinalCall

Spec == Init /\ [][Next]_vars

SpecArgs == InitArgs /\ [][Next]_vars

\* Calls with a tool manager that has the model's tool and with one that has
\* no tool registered.
SpecRegistry == InitRegistry /\ [][Next]_vars

\* Every model call and every tool dispatch returns or raises, so a call of
\* generate_response that can take a step eventually takes one.
SpecLive == Spec /\ WF_vars(Next)

----------------------------------------------------------------------------
(* The tool layer in use: direct executions of the search tool, and queries *)
(* of the facade on a tool manager                                          *)

genvars == <<query, conversation_history, tools, tool_manager, pc, messages,
             round_count, response, block_idx, tool_results, has_error,
             requests, replies, dispatched, issued, outcome, result>>

\* What is kept of an execution once another one has followed it.
Brief(entry) == [query |-> entry.kwargs.query, cited |-> entry.sources /= <<>>]

\* The log after one more execution: the execution before in brief, and the
\* new one.
Logged(log, entry) ==
    IF log = <<>> THEN <<entry>> ELSE <<Brief(log[Len(log)]), entry>>

\* The members of a sequence.
Range(seq) == {seq[i] : i \in 1..Len(seq)}

\* tool.execute(query=..., course_name=..., lesson_number=...) on the search
\* tool, with what the backend answers.
SearchExecute ==
    /\ \E kwargs \in SearchArgs, results \in BackendResults, links \in LinkStores :
        LET out == search_execute(kwargs, results, links)
            i == IndexOf(registry, "search_course_content")
        IN
        /\ i /= 0
        /\ exec_log' = Logged(exec_log,
                [kwargs |-> kwargs, results |-> results, links |-> links,
                 raised |-> out.raised, text |-> out.text, sources |-> out.sources])
        /\ IF out.raised
           THEN UNCHANGED <<registry, tool_text>>
           ELSE /\ registry' = [registry EXCEPT ![i].last_sources =
                                    store_sources(@, out.sources)]
                /\ tool_text' = out.text
    /\ UNCHANGED <<genvars, callvars, reg_log, fpc, fresh, returned>>

\* The arguments, the link store and the backend results of the executions
\* inside a query: at most one passage each.
QueryArgs == [query |-> <<"q1">>]
QueryLinks == [lesson |-> <<"lesson-link">>, course |-> <<"course-link">>]
QueryResults == {r \in BackendResults : Len(r.documents) <= 1}

\* tool_manager.register_tool(tool), between queries.
RegisterTool ==
    /\ fpc /= "running"
    /\ Len(reg_log) < MaxRegistrations
    /\ \E tool \in NewTools(Len(reg_log) + 1) :
        /\ registry' = register_tool(registry, tool)
        /\ reg_log' = Append(reg_log, tool.name)
    /\ UNCHANGED <<genvars, callvars, fpc, fresh, returned, tool_text, exec_log>>

\* The facade starts a query: generate_response is called.
StartQuery ==
    /\ fpc /= "running"
    /\ fpc' = "running"
    /\ fresh' = [n |-> 0, cites |-> {}]
    /\ UNCHANGED <<genvars, callvars, registry, reg_log, returned, tool_text, exec_log>>

\* tool_manager.execute_tool(name, **kwargs) during the query.
DispatchTool ==
    /\ fpc = "running"
    /\ fresh.n < MaxDispatches
    /\ \E name \in RegistrableNames :
        LET i == IndexOf(registry, name) IN
        \/ /\ i = 0
           /\ tool_text' = ToolNotFound(name)
           /\ registry' = registry
           /\ fresh' = [fresh EXCEPT !.n = @ + 1]
        \/ /\ i /= 0
           /\ KeepsSources(registry[i])
           /\ \E results \in QueryResults :
                LET out == search_execute(QueryArgs, results, QueryLinks) IN
                /\ ~out.raised
                /\ tool_text' = out.text
                /\ registry' = [registry EXCEPT ![i].last_sources =
                                    store_sources(@, out.sources)]
                /\ fresh' = [n |-> fresh.n + 1, cites |-> fresh.cites \cup Range(out.sources)]
        \/ /\ i /= 0
           /\ ~KeepsSources(registry[i])
           /\ \E outline \in Outlines :
                /\ tool_text' = outline_execute(<<"c">>, outline)
                /\ registry' = after_outline(registry, i)
                /\ fresh' = [fresh EXCEPT !.n = @ + 1]
    /\ UNCHANGED <<genvars, callvars, reg_log, fpc, returned, exec_log>>

\* generate_response returned: the facade harvests the sources, resets them
\* and returns.
FinishQuery ==
    /\ fpc = "running"
    /\ returned' = get_last_sources(registry)
    /\ registry' = reset_sources(registry)
    /\ fpc' = "returned"
    /\ UNCHANGED <<genvars, callvars, reg_log, fresh, tool_text, exec_log>>

\* generate_response raised (a model fault): nothing in the facade catches
\* it, so the query ends without harvesting and without resetting.
AbortQuery ==
    /\ fpc = "running"
    /\ fpc' = "raised"
    /\ UNCHANGED <<genvars, callvars, registry, reg_log, fresh, returned, tool_text, exec_log>>

\* A search tool on its own, as the tests of CourseSearchTool build it.
InitSearch ==
    /\ query \in Queries
    /\ conversation_history \in Histories
    /\ tools = None
    /\ tool_manager = None
    /\ Entry
    /\ registry = <<CourseSearchTool(1)>>
    /\ reg_log = <<"search_course_content">>
    /\ fpc = "idle"
    /\ fresh = [n |-> 0, cites |-> {}]
    /\ returned = <<>>
    /\ tool_text = <<>>
    /\ exec_log = <<>>
    /\ calls = <<>>
    /\ gen = [base_params |-> base_params]

NextSearch == SearchExecute

SpecSearch == InitSearch /\ [][NextSearch]_vars

\* A new ToolManager(), on which tools are registered and queries are run.
InitTools ==
    /\ query \in Queries
    /\ conversation_history \in Histories
    /\ tools = None
    /\ tool_manager = <<"tool_manager">>
    /\ Entry
    /\ registry = <<>>
    /\ reg_log = <<>>
    /\ fpc = "idle"
    /\ fresh = [n |-> 0, cites |-> {}]
    /\ returned = <<>>
    /\ tool_text = <<>>
    /\ exec_log = <<>>
    /\ calls = <<>>
    /\ gen = [base_params |-> base_params]

NextTools ==
    \/ RegisterTool
    \/ StartQuery
    \/ DispatchTool
    \/ FinishQuery
    \/ AbortQuery

SpecTools == InitTools /\ [][NextTools]_vars

----------------------------------------------------------------------------
(* Two calls of generate_response on one AIGenerator, interleaved. Each call *)
(* has its own arguments and locals; the instance (self) is shared. What the *)
(* model replies and what the tools do is fixed per call by a script, so     *)
(* that a call can be compared with the same call run alone.                 *)

Callers == {1, 2}

CallQuery(c) == <<"q", ToString(c)>>

\* One answer of the environment to a model request of a call: the request
\* raises, or returns a reply; the tools a reply asks for return or raise.
ScriptTurns ==
    {[fault |-> TRUE, reply |-> NoResponse, tool_raises |-> FALSE],
     [fault |-> FALSE, tool_raises |-> FALSE,
      reply |-> [stop_reason |-> "end_turn", content |-> <<TextBlock(<<"a">>)>>]]}
    \cup
    {[fault |-> FALSE, tool_raises |-> b,
      reply |-> [stop_reason |-> "tool_use",
                 content |-> <<TextBlock(<<"a">>),
                               ToolUseBlock(0, "search_course_content", [query |-> <<"x">>])>>]] :
        b \in BOOLEAN}

EndsCall(turn) == turn.fault \/ ~WantsTools(turn.reply)

\* The scripts that answer every model request of one call: tool requests
\* up to the round cap, then a last answer.
Scripts ==
    {sc \in UNION {[1..n -> ScriptTurns] : n \in 1..(MAX_TOOL_ROUNDS + 1)} :
        /\ \A i \in 1..(Len(sc) - 1) : ~EndsCall(sc[i])
        /\ Len(sc) = MAX_TOOL_ROUNDS + 1 \/ EndsCall(sc[Len(sc)])}

\* A call that has not started: its arguments, and no locals yet.
IdleCall(c, sc) ==
    [query |-> CallQuery(c), conversation_history |-> None,
     tools |-> <<"search_course_content">>, tool_manager |-> <<"tool_manager">>,
     script |-> sc, pos |-> 1, after |-> {},
     pc |-> "idle", messages |-> <<>>, round_count |-> 0, response |-> NoResponse,
     tool_results |-> <<>>, requests |-> <<>>, outcome |-> "running", result |-> None]

\* The generator and the two calls, as a value.
Both(cs, g) == [calls |-> cs, gen |-> g]

\* Mutant: the request is built in self.base_params itself, not in a copy.
gen_after_request_aliased(g, params) == [g EXCEPT !.base_params = params]

\* `{**self.base_params, ...}` builds the request in a new dict: the
\* instance is as it was.
gen_after_request(g, params) == g

\* Mutant: the round counter is kept on the instance (self.round_count).
bump_round_shared(cs, c) ==
    [k \in DOMAIN cs |-> [cs[k] EXCEPT !.round_count = @ + 1]]

\* `round_count += 1` on the call's local.
bump_round(cs, c) == [cs EXCEPT ![c].round_count = @ + 1]

\* Lines 92-96: the locals of a call that starts.
begin(st, c) ==
    LET l == st.calls[c] IN
    Both([st.calls EXCEPT ![c] =
            [l EXCEPT !.pc = "loop",
                      !.messages = <<[role |-> "user", content |-> l.query]>>,
                      !.round_count = 0,
                      !.after = {k \in DOMAIN st.calls : st.calls[k].pc = "done"}]],
         st.gen)

\* api_params and final_params, built from the instance's base_params.
loop_params(g, l) ==
    IF Truthy(l.tools)
    THEN [tools |-> l.tools, tool_choice |-> [type |-> "auto"]]
            @@ [messages |-> l.messages, system |-> system_content(l.conversation_history)]
            @@ g.base_params
    ELSE [messages |-> l.messages, system |-> system_content(l.conversation_history)]
            @@ g.base_params
last_params(g, l) ==
    [messages |-> l.messages, system |-> system_content(l.conversation_history)]
        @@ g.base_params

\* The reply the script holds for the call's next request, with the call
\* identifiers the model gives it.
ScriptedReply(l, c) ==
    [l.script[l.pos].reply EXCEPT !.content = Stamp(@, 10 * c + l.pos)]

\* client.messages.create(**params) of a call, answered by its script. The
\* request after the loop always returns the reply's text; a request inside
\* the loop returns it for a reply without tool request or without tool
\* manager, and goes on to the tools otherwise.
model_call(st, c, params, always_returns) ==
    LET l == st.calls[c]
        turn == l.script[l.pos]
        reply == ScriptedReply(l, c)
        asked == [l EXCEPT !.requests = Append(@, params), !.pos = @ + 1]
        g == gen_after_request(st.gen, params)
    IN  IF turn.fault
        THEN Both([st.calls EXCEPT ![c] =
                    [asked EXCEPT !.pc = "done", !.outcome = "raised"]], g)
        ELSE IF always_returns \/ ~WantsTools(reply) \/ NoToolManager(l.tool_manager)
        THEN Both([st.calls EXCEPT ![c] =
                    [asked EXCEPT !.pc = "done", !.outcome = "returned",
                                  !.response = reply, !.result = _extract_text(reply)]], g)
        ELSE Both([st.calls EXCEPT ![c] =
                    [asked EXCEPT !.pc = "tools", !.response = reply,
                                  !.tool_results = <<>>]], g)

\* _execute_tools of a call, the whole for loop.
execute_tools(st, c) ==
    LET l == st.calls[c]
        raises == l.script[l.pos - 1].tool_raises
        blocks == SelectSeq(l.response.content, IsToolUse)
        results == [i \in 1..Len(blocks) |->
                        IF raises
                        THEN tool_result_error(blocks[i], <<"boom">>)
                        ELSE tool_result(blocks[i], <<"r">>)]
    IN  Both([st.calls EXCEPT ![c] =
                [l EXCEPT !.pc = "executed", !.tool_results = results]], st.gen)

\* The rest of the loop body of a call.
finish_round(st, c) ==
    LET l == st.calls[c] IN
    Both(bump_round([st.calls EXCEPT ![c] =
                        [l EXCEPT !.pc = "loop",
                                  !.messages = AppendRound(@, l.response, l.tool_results)]],
                    c),
         st.gen)

\* The next step of call c.
step(st, c) ==
    LET l == st.calls[c] IN
    CASE l.pc = "idle" -> begin(st, c)
      [] l.pc = "loop" /\ LoopCond(l.round_count) ->
            model_call(st, c, loop_params(st.gen, l), FALSE)
      [] l.pc = "loop" /\ ~LoopCond(l.round_count) ->
            model_call(st, c, last_params(st.gen, l), TRUE)
      [] l.pc = "tools" -> execute_tools(st, c)
      [] l.pc = "executed" -> finish_round(st, c)
      [] OTHER -> st

Takes(c, next) ==
    /\ calls' = next.calls
    /\ gen' = next.gen
    /\ UNCHANGED <<genvars, toolvars>>

BeginCall ==
    \E c \in Callers :
        /\ calls[c].pc = "idle"
        /\ Takes(c, begin(Both(calls, gen), c))

CallModelOf ==
    \E c \in Callers :
        /\ calls[c].pc = "loop"
        /\ LoopCond(calls[c].round_count)
        /\ Takes(c, model_call(Both(calls, gen), c, loop_params(gen, calls[c]), FALSE))

ExecuteToolsOf ==
    \E c \in Callers :
        /\ calls[c].pc = "tools"
        /\ Takes(c, execute_tools(Both(calls, gen), c))

FinishRoundOf ==
    \E c \in Callers :
        /\ calls[c].pc = "executed"
        /\ Takes(c, finish_round(Both(calls, gen), c))

ForcedFinalCallOf ==
    \E c \in Callers :
        /\ calls[c].pc = "loop"
        /\ ~LoopCond(calls[c].round_count)
        /\ Takes(c, model_call(Both(calls, gen), c, last_params(gen, calls[c]), TRUE))

\* One generator, as constructed, and two callers about to call it.
InitCalls ==
    /\ query \in Queries
    /\ conversation_history \in Histories
    /\ tools = None
    /\ tool_manager = None
    /\ Entry
    /\ registry = StartupRegistry
    /\ reg_log = <<"search_course_content", "get_course_outline">>
    /\ fpc = "idle"
    /\ fresh = [n |-> 0, cites |-> {}]
    /\ returned = <<>>
    /\ tool_text = <<>>
    /\ exec_log = <<>>
    /\ \E sc1, sc2 \in Scripts : calls = <<IdleCall(1, sc1), IdleCall(2, sc2)>>
    /\ gen = [base_params |-> base_params]

NextCalls ==
    \/ BeginCall
    \/ CallModelOf
    \/ ExecuteToolsOf
    \/ FinishRoundOf
    \/ ForcedFinalCallOf

SpecCalls == InitCalls /\ [][NextCalls]_vars

----------------------------------------------------------------------------
(* Readings of the state used by the properties *)

Done == pc = "done"

Last(seq) == seq[Len(seq)]

\* A model call faulted: a request was issued and no reply came back.
ModelFaulted == Len(replies) < Len(requests)

OffersTools(req) == "tools" \in DOMAIN req \/ "tool_choice" \in DOMAIN req

\* The tool invocations of a reply content, in order.
Invocations(content) == SelectSeq(content, IsToolUse)

\* The i-th completed round of the conversation: its assistant turn and the
\* user turn that carries its results.
AssistantTurn(msgs, r) == msgs[2 * r]
ResultTurn(msgs, r) == msgs[2 * r + 1]
RoundsIn(msgs) == (Len(msgs) - 1) \div 2

IsErrorResult(res) == "is_error" \in DOMAIN res /\ res.is_error = TRUE

----------------------------------------------------------------------------
(* Properties *)

\* C1: generate_response always terminates. Whatever the model replies (also
\* when every reply requests tools) and whatever the tool executor does, the
\* call issues at most MAX_TOOL_ROUNDS + 1 model requests and eventually
\* reaches DONE, having returned an answer or propagated a model-call fault.
C1_Terminates ==
    /\ [](Len(requests) <= MAX_TOOL_ROUNDS + 1)
    /\ <>(Done /\ outcome \in {"returned", "raised"})

\* C1 witness: the model requested tools in every reply, the forced-final one
\* included, and the call has returned.
C1_Witness ==
    /\ Done
    /\ outcome = "returned"
    /\ Len(replies) = MAX_TOOL_ROUNDS + 1
    /\ \A i \in 1..Len(replies) :
            WantsTools(replies[i]) /\ Invocations(replies[i].content) /= <<>>

\* C2: the round counter is 0 at query start, changes only by being
\* incremented by exactly 1 when a round is complete (every invocation of the
\* reply dispatched and the assistant turn and the result turn appended), and
\* never exceeds MAX_TOOL_ROUNDS.
C2_RoundCounter ==
    /\ round_count = 0
    /\ [][round_count' /= round_count =>
            /\ round_count' = round_count + 1
            /\ pc = "tools"
            /\ Len(tool_results) = Len(Invocations(response.content))
            /\ \A j \in 1..Len(tool_results) :
                    /\ tool_results[j].tool_use_id = Invocations(response.content)[j].id
                    /\ \E d \in 1..Len(dispatched) :
                            dispatched[d].id = tool_results[j].tool_use_id
            /\ Len(messages') = Len(messages) + 2
            /\ SubSeq(messages', 1, Len(messages)) = messages
            /\ messages'[Len(messages) + 1] =
                    [role |-> "assistant", content |-> response.content]
            /\ messages'[Len(messages) + 2] =
                    [role |-> "user", content |-> tool_results]
       ]_vars
    /\ [](round_count \in 0..MAX_TOOL_ROUNDS)

\* C2 witness: the counter has reached the cap after two rounds with
\* invocations.
C2_Witness ==
    /\ round_count = MAX_TOOL_ROUNDS
    /\ \A r \in 1..MAX_TOOL_ROUNDS : Len(ResultTurn(messages, r).content) > 0


\* The rounds of tool use a finished query needed: the replies that requested
\* tools before the reply of the last model call.
ToolUseReplies ==
    Cardinality({i \in 1..(Len(replies) - 1) : WantsTools(replies[i])})

DispatchRounds ==
    Cardinality({k \in 2..Len(messages) : messages[k].role = "user"})

ReturnedWithExecutor == Done /\ outcome = "returned" /\ Truthy(tool_manager)

\* C3 as stated: a query that needs k <= roundCap rounds of tool use (tool
\* executor supplied, no model-call fault) makes exactly k+1 model calls and
\* k rounds of dispatch, and its final model call carries no tool offer only
\* when k = roundCap.
C3_Original ==
    ReturnedWithExecutor =>
        LET k == ToolUseReplies IN
        /\ k <= MAX_TOOL_ROUNDS
        /\ Len(requests) = k + 1
        /\ DispatchRounds = k
        /\ (~OffersTools(Last(requests)) => k = MAX_TOOL_ROUNDS)

\* C3 amended: the same counts; when a non-empty tool list was supplied the
\* final model call carries no tool offer only when (and whenever)
\* k = roundCap, and without a tool list no call carries a tool offer.
C3_Amended ==
    ReturnedWithExecutor =>
        LET k == ToolUseReplies IN
        /\ k <= MAX_TOOL_ROUNDS
        /\ Len(requests) = k + 1
        /\ DispatchRounds = k
        /\ Truthy(tools) => (~OffersTools(Last(requests)) <=> k = MAX_TOOL_ROUNDS)
        /\ ~Truthy(tools) => \A i \in 1..Len(requests) : ~OffersTools(requests[i])

\* C3 witness: a query with tools offered that needed one round and then got
\* a text answer from a call that still offered the tools.
C3_Witness ==
    /\ ReturnedWithExecutor
    /\ Truthy(tools)
    /\ ToolUseReplies = 1
    /\ Len(requests) = 2
    /\ OffersTools(Last(requests))
    /\ Len(dispatched) = 1

\* The text a reply carries: that of its first block with a text attribute.
CarriesText(reply, t) ==
    \E i \in 1..Len(reply.content) :
        /\ "text" \in DOMAIN reply.content[i]
        /\ reply.content[i].text = t
        /\ \A j \in 1..(i - 1) : "text" \notin DOMAIN reply.content[j]

HasText(reply) == \E i \in 1..Len(reply.content) : "text" \in DOMAIN reply.content[i]

RECURSIVE ResultsIn(_, _)
ResultsIn(msgs, r) ==
    IF r = 0 THEN 0 ELSE Len(ResultTurn(msgs, r).content) + ResultsIn(msgs, r - 1)

\* C5: once the round cap is reached, exactly one more model request is
\* issued; it carries the accumulated conversation and neither a tools list
\* nor a tool-choice setting; whatever the reply is, the call returns after
\* it, with no tool dispatched and no model call made after that request.
C5_ForcedFinal ==
    round_count = MAX_TOOL_ROUNDS =>
        \/ /\ pc = "loop"
           /\ Len(requests) = MAX_TOOL_ROUNDS
           /\ ENABLED ForcedFinalCall
           /\ ~ENABLED CallModel
        \/ /\ Done
           /\ ~ENABLED Next
           /\ Len(requests) = MAX_TOOL_ROUNDS + 1
           /\ ~OffersTools(Last(requests))
           /\ Last(requests).messages = messages
           /\ Len(messages) = 2 * MAX_TOOL_ROUNDS + 1
           /\ \A i \in 1..MAX_TOOL_ROUNDS : OffersTools(requests[i]) <=> Truthy(tools)
           /\ Len(dispatched) = ResultsIn(messages, MAX_TOOL_ROUNDS)
           /\ \/ outcome = "raised" /\ ModelFaulted
              \/ /\ outcome = "returned"
                 /\ Len(replies) = MAX_TOOL_ROUNDS + 1
                 /\ HasText(Last(replies)) => CarriesText(Last(replies), result)

\* C5 witness: the forced-final request was made for a caller that offers
\* tools, the model answered it with one more tool request, and the call
\* returned.
C5_Witness ==
    /\ round_count = MAX_TOOL_ROUNDS
    /\ Done
    /\ outcome = "returned"
    /\ Truthy(tools)
    /\ WantsTools(Last(replies))
    /\ Invocations(Last(replies).content) /= <<>>

\* The model requested a tool in every reply it has given so far.
AlwaysRequestsTools == \A i \in 1..Len(replies) : WantsTools(replies[i])

\* The rounds of dispatch started so far: the completed ones and the one
\* _execute_tools is working on.
RoundsStarted == round_count + (IF pc = "tools" THEN 1 ELSE 0)

\* The invocations of the replies that were handed to _execute_tools.
RECURSIVE InvocationsIn(_, _)
InvocationsIn(rs, n) ==
    IF n = 0 THEN 0 ELSE ToolUseCount(rs[n].content) + InvocationsIn(rs, n - 1)

\* C6 as stated: with a model that always requests a tool, the number of
\* tool-executor calls during the query never exceeds roundCap, and a final
\* answer is always produced.
C6_Original ==
    AlwaysRequestsTools =>
        /\ Len(dispatched) <= MAX_TOOL_ROUNDS
        /\ Done \/ ENABLED Next
        /\ (Done /\ ~ModelFaulted) => outcome = "returned"

\* C6 amended: with a model that always requests a tool, the number of
\* dispatch rounds never exceeds roundCap; the tool-executor calls are those
\* for the invocations of the at most roundCap replies that got a round
\* (one call each, so at most roundCap calls when every reply holds one
\* invocation); and unless a model call faults a final answer is produced,
\* after the forced-final request when a tool executor was supplied.
C6_Amended ==
    AlwaysRequestsTools =>
        /\ RoundsStarted <= MAX_TOOL_ROUNDS
        /\ RoundsStarted <= Len(replies)
        /\ Len(dispatched) <= InvocationsIn(replies, RoundsStarted)
        /\ pc = "loop" \/ Done => Len(dispatched) = InvocationsIn(replies, RoundsStarted)
        /\ (\A i \in 1..Len(replies) : ToolUseCount(replies[i].content) <= 1)
                => Len(dispatched) <= MAX_TOOL_ROUNDS
        /\ Done \/ ENABLED Next
        /\ (Done /\ ~ModelFaulted) =>
                /\ outcome = "returned"
                /\ Truthy(tool_manager) => Len(requests) = MAX_TOOL_ROUNDS + 1
                /\ HasText(Last(replies)) => CarriesText(Last(replies), result)

\* C6 witness: every reply requested tools, both rounds dispatched two
\* invocations each, and the forced-final call produced the answer.
C6_Witness ==
    /\ AlwaysRequestsTools
    /\ Done
    /\ outcome = "returned"
    /\ Len(replies) = MAX_TOOL_ROUNDS + 1
    /\ Len(dispatched) = 2 * MAX_TOOL_ROUNDS

\* Every ToolResult recorded so far: those of the result turns of the
\* conversation, then those _execute_tools is collecting.
RECURSIVE RecordedUpTo(_, _)
RecordedUpTo(msgs, r) ==
    IF r = 0 THEN <<>> ELSE RecordedUpTo(msgs, r - 1) \o ResultTurn(msgs, r).content

Recorded ==
    RecordedUpTo(messages, RoundsIn(messages))
        \o (IF pc = "tools" THEN tool_results ELSE <<>>)

\* C7: a fault raised by the tool executor is never propagated out of
\* generate_response: the ToolResult recorded for that call identifier is
\* error-flagged and carries a descriptive message, and the query goes on to
\* its final answer (only a model-call fault makes the call raise).
C7_ToolFaultContained ==
    /\ Len(Recorded) = Len(dispatched)
    /\ \A d \in 1..Len(dispatched) :
            dispatched[d].raised =>
                /\ Recorded[d].tool_use_id = dispatched[d].id
                /\ "is_error" \in DOMAIN Recorded[d]
                /\ Recorded[d].is_error = TRUE
                /\ Len(Recorded[d].content) > Len(dispatched[d].value)
                /\ Recorded[d].content =
                        <<"Error executing tool: ">> \o dispatched[d].value
    /\ outcome = "raised" => ModelFaulted
    /\ (\E d \in 1..Len(dispatched) : dispatched[d].raised) =>
            /\ Done \/ ENABLED Next
            /\ (Done /\ ~ModelFaulted) =>
                    /\ outcome = "returned"
                    /\ Len(replies) = Len(requests)
                    /\ Len(replies) > 1

\* C7 witness: a dispatch raised and the query still returned an answer, the
\* one the model gave on the next turn.
C7_Witness ==
    /\ Done
    /\ outcome = "returned"
    /\ result = <<"a">>
    /\ Len(dispatched) = 1
    /\ dispatched[1].raised
    /\ Len(replies) = 2

\* The results `res` answer the invocations `inv` one for one, in order.
AnswersEach(res, inv) ==
    /\ Len(res) = Len(inv)
    /\ \A j \in 1..Len(inv) :
            /\ res[j].tool_use_id = inv[j].id
            /\ \E d \in 1..Len(dispatched) :
                    /\ dispatched[d].id = inv[j].id
                    /\ dispatched[d].raised <=> IsErrorResult(res[j])

HasErrorResult(res) == \E j \in 1..Len(res) : IsErrorResult(res[j])

\* C8: a fault in one tool invocation does not abort its round. Every other
\* invocation of the same reply, before and after the faulting one, is
\* dispatched and gets its own ToolResult; the round is completed and
\* counted; and the loop goes on to the next model turn.
C8_FaultDoesNotAbortRound ==
    /\ \A r \in 1..RoundsIn(messages) :
            HasErrorResult(ResultTurn(messages, r).content) =>
                /\ AssistantTurn(messages, r).content = replies[r].content
                /\ AnswersEach(ResultTurn(messages, r).content,
                               Invocations(replies[r].content))
                /\ round_count >= r
                /\ \/ Len(requests) > r
                   \/ /\ Len(requests) = r
                      /\ pc = "loop"
                      /\ ENABLED (CallModel \/ ForcedFinalCall)
    /\ (pc = "tools" /\ HasErrorResult(tool_results)) =>
            /\ AnswersEach(tool_results,
                           Invocations(SubSeq(response.content, 1, block_idx - 1)))
            /\ ENABLED (ExecuteToolBlock \/ FinishRound)

\* C8 witness: in the first round the first of two invocations faulted and
\* the second was answered; in the second round the second of two faulted
\* after the first was answered; the model was then called again.
C8_Witness ==
    /\ RoundsIn(messages) = 2
    /\ Len(requests) = 3
    /\ Len(ResultTurn(messages, 1).content) = 2
    /\ IsErrorResult(ResultTurn(messages, 1).content[1])
    /\ ~IsErrorResult(ResultTurn(messages, 1).content[2])
    /\ Len(ResultTurn(messages, 2).content) = 2
    /\ ~IsErrorResult(ResultTurn(messages, 2).content[1])
    /\ IsErrorResult(ResultTurn(messages, 2).content[2])

\* The result turns of a conversation: its user turns after the first.
ResultTurns(msgs) == {k \in 2..Len(msgs) : msgs[k].role = "user"}

\* C9: in every conversation sent to the model, every ToolResult of a user
\* turn carries the call identifier of a ToolInvocation of the immediately
\* preceding assistant turn, and every invocation of that assistant turn has
\* exactly one ToolResult, success or error, in that user turn.
C9_ResultsMatchInvocations ==
    \A q \in 1..Len(requests) :
        LET msgs == requests[q].messages IN
        \A k \in ResultTurns(msgs) :
            LET res == msgs[k].content
                prev == msgs[k - 1]
            IN
            /\ prev.role = "assistant"
            /\ \A j \in 1..Len(res) :
                    /\ res[j].type = "tool_result"
                    /\ \E b \in 1..Len(prev.content) :
                            /\ IsToolUse(prev.content[b])
                            /\ prev.content[b].id = res[j].tool_use_id
            /\ \A b \in 1..Len(prev.content) :
                    IsToolUse(prev.content[b]) =>
                        Cardinality({j \in 1..Len(res) :
                            res[j].tool_use_id = prev.content[b].id}) = 1

\* C9 witness: a request whose conversation holds a result turn with one
\* successful and one error result, after an assistant turn that mixes a text
\* block with the invocations.
C9_Witness ==
    \E q \in 1..Len(requests) :
        LET msgs == requests[q].messages IN
        /\ Len(msgs) >= 3
        /\ Len(msgs[2].content) = 3
        /\ Len(msgs[3].content) = 2
        /\ IsErrorResult(msgs[3].content[1])
        /\ ~IsErrorResult(msgs[3].content[2])

\* C10: a fault raised by a model call, inside the loop or by the
\* forced-final request, is not caught: it leaves generate_response, no
\* answer is returned, and no tool dispatch or model call follows it.
C10_ModelFaultPropagates ==
    /\ ModelFaulted =>
            /\ Done
            /\ outcome = "raised"
            /\ result = None
            /\ Len(requests) = Len(replies) + 1
            /\ Len(dispatched) = Len(RecordedUpTo(messages, RoundsIn(messages)))
            /\ Last(requests).messages = messages
            /\ ~ENABLED Next
    /\ outcome = "raised" => ModelFaulted

\* C10 witness: the forced-final request faulted after two rounds with
\* dispatches.
C10_Witness ==
    /\ ModelFaulted
    /\ Len(requests) = MAX_TOOL_ROUNDS + 1
    /\ Len(dispatched) >= MAX_TOOL_ROUNDS

\* C10 witness inside the loop: the second request faulted.
C10_WitnessInLoop ==
    /\ ModelFaulted
    /\ Len(requests) = MAX_TOOL_ROUNDS
    /\ Len(dispatched) >= 1

\* The answer generate_response owes for a reply: the text of its first
\* block with a text attribute, and the fixed fallback when it has none.
AnswerFor(reply, t) ==
    IF HasText(reply)
    THEN CarriesText(reply, t)
    ELSE t = <<"Unable to generate a response.">>

\* C11: when no tool executor is supplied, tool use is disabled even if the
\* model requests it: whatever the first reply is, exactly one model call is
\* made, no tool is dispatched, no turn is appended to the conversation and
\* the text extracted from that reply is returned.
C11_NoExecutorNoTools ==
    (~Truthy(tool_manager) /\ Len(replies) >= 1) =>
        /\ Done
        /\ outcome = "returned"
        /\ ~ENABLED Next
        /\ Len(requests) = 1
        /\ Len(replies) = 1
        /\ dispatched = <<>>
        /\ tool_results = <<>>
        /\ messages = <<[role |-> "user", content |-> query]>>
        /\ round_count = 0
        /\ AnswerFor(replies[1], result)

\* C11 witness: without a tool executor the model requested a tool next to a
\* text, and the text came back as the answer.
C11_Witness ==
    /\ ~Truthy(tool_manager)
    /\ Done
    /\ Len(replies) = 1
    /\ WantsTools(replies[1])
    /\ Invocations(replies[1].content) /= <<>>
    /\ result = <<"a">>

\* How often the tool executor was called for a call identifier.
DispatchCount(id) ==
    Cardinality({d \in 1..Len(dispatched) : dispatched[d].id = id})

\* The i-th reply answered a request of the loop: the round cap was not yet
\* reached when it was received.
ReceivedInLoop(i) == RoundsIn(requests[i].messages) < MAX_TOOL_ROUNDS

\* The i-th reply has been dealt with: the next request was issued or the
\* call is over.
DealtWith(i) == Len(requests) > i \/ Done

\* C12 as stated: every ToolInvocation of a reply received while a tool
\* executor is supplied and the round cap is not yet reached is consumed
\* exactly once: dispatched once, never skipped, never dispatched again.
C12_Original ==
    Truthy(tool_manager) =>
        \A i \in 1..Len(replies) :
            ReceivedInLoop(i) =>
                \A b \in 1..Len(replies[i].content) :
                    IsToolUse(replies[i].content[b]) =>
                        /\ DispatchCount(replies[i].content[b].id) <= 1
                        /\ DealtWith(i) =>
                                DispatchCount(replies[i].content[b].id) = 1

\* C12 amended: every ToolInvocation of a reply whose stop reason is tool_use,
\* received while a tool executor is supplied and the round cap is not yet
\* reached, is dispatched exactly once, with its own name and arguments: never
\* skipped and never dispatched again in a later round. The invocations of
\* any other reply (another stop reason, no executor, the forced-final reply)
\* are never dispatched.
C12_Amended ==
    /\ \A i \in 1..Len(replies) :
            \A b \in 1..Len(replies[i].content) :
                LET block == replies[i].content[b] IN
                IsToolUse(block) =>
                    IF Truthy(tool_manager) /\ ReceivedInLoop(i) /\ WantsTools(replies[i])
                    THEN /\ DispatchCount(block.id) <= 1
                         /\ DealtWith(i) => DispatchCount(block.id) = 1
                         /\ (~DealtWith(i) /\ b < block_idx) => DispatchCount(block.id) = 1
                         /\ (~DealtWith(i) /\ b >= block_idx) => DispatchCount(block.id) = 0
                    ELSE DispatchCount(block.id) = 0
    /\ \A d \in 1..Len(dispatched) :
            \E i \in 1..Len(replies) :
                \E b \in 1..Len(replies[i].content) :
                    /\ IsToolUse(replies[i].content[b])
                    /\ replies[i].content[b].id = dispatched[d].id
                    /\ replies[i].content[b].name = dispatched[d].name
                    /\ replies[i].content[b].input = dispatched[d].input

\* C12 witness: two rounds dispatched three invocations, once each, and the
\* forced-final reply held one more invocation, which was left alone.
C12_Witness ==
    /\ Done
    /\ Len(replies) = MAX_TOOL_ROUNDS + 1
    /\ Len(dispatched) = 3
    /\ \A d \in 1..3 : DispatchCount(d) = 1
    /\ Invocations(replies[3].content) /= <<>>

\* C13: every request issued inside the round loop offers the caller's tool
\* specifications, the same in every round, with automatic tool selection,
\* exactly when a non-empty tool list was provided; otherwise the request has
\* neither a tools list nor a tool-choice setting.
C13_ToolOffer ==
    \A i \in 1..Len(requests) :
        ReceivedInLoop(i) =>
            IF tools /= None /\ tools /= <<>>
            THEN /\ "tools" \in DOMAIN requests[i]
                 /\ requests[i].tools = tools
                 /\ "tool_choice" \in DOMAIN requests[i]
                 /\ requests[i].tool_choice = [type |-> "auto"]
            ELSE /\ "tools" \notin DOMAIN requests[i]
                 /\ "tool_choice" \notin DOMAIN requests[i]

\* C13 witness: a second round's request offers the same tool list as the
\* first.
C13_Witness ==
    /\ tools = <<"search_course_content">>
    /\ Len(requests) >= 2
    /\ ReceivedInLoop(2)
    /\ "tools" \in DOMAIN requests[2]
    /\ requests[2].tools = requests[1].tools

\* C13 witness for the other side: an empty tool list was provided and the
\* request carries no tools.
C13_WitnessEmptyList ==
    /\ tools = <<>>
    /\ Len(requests) >= 1
    /\ ~OffersTools(requests[1])

\* The call returned the answer of the request made after the loop.
ForcedFinalReturned ==
    /\ Done
    /\ outcome = "returned"
    /\ Len(replies) = Len(requests)
    /\ ~ReceivedInLoop(Len(requests))

\* The text of a reply is empty: its first text block holds "".
EmptyText(reply) == CarriesText(reply, <<>>)

\* C14 as stated: the forced-final reply's text is returned, and an empty text
\* is replaced by "Unable to generate a response.", so the answer of the
\* forced-final call is never empty.
C14_ForcedFinalNeverEmpty ==
    ForcedFinalReturned =>
        /\ result /= <<>>
        /\ IF HasText(Last(replies)) /\ ~EmptyText(Last(replies))
           THEN CarriesText(Last(replies), result)
           ELSE result = <<"Unable to generate a response.">>

\* C14, what the code does: the forced-final answer is the text of the first
\* text block, empty or not, and the fallback only when there is no text block.
C14_ForcedFinalText ==
    ForcedFinalReturned => AnswerFor(Last(replies), result)

\* C14 witness: the forced-final reply's text was empty and the call returned
\* the empty string.
C14_EmptyAnswer ==
    /\ ForcedFinalReturned
    /\ EmptyText(Last(replies))
    /\ result = <<>>

\* a is an initial part of b.
IsPrefix(a, b) == Len(a) <= Len(b) /\ SubSeq(b, 1, Len(a)) = a

\* Roles alternate user, assistant, user, ...
Alternates(msgs) ==
    \A k \in 1..Len(msgs) :
        msgs[k].role = (IF k % 2 = 1 THEN "user" ELSE "assistant")

\* The conversation is the query followed, for each completed round r, by the
\* r-th reply as an assistant turn and one user turn with a result per
\* invocation of that reply, in order.
WellFormedConversation(msgs) ==
    /\ Len(msgs) % 2 = 1
    /\ msgs[1] = [role |-> "user", content |-> query]
    /\ Alternates(msgs)
    /\ \A r \in 1..RoundsIn(msgs) :
            /\ AssistantTurn(msgs, r) = [role |-> "assistant", content |-> replies[r].content]
            /\ DOMAIN ResultTurn(msgs, r) = {"role", "content"}
            /\ AnswersEach(ResultTurn(msgs, r).content, Invocations(replies[r].content))

\* C15: the conversation starts as one user turn holding the query and only
\* grows: each completed round appends the model's reply as one assistant
\* turn and one user turn bundling all ToolResults of the round, and earlier
\* turns stay as they were, so the n-th model request of a query carries
\* 2(n-1)+1 turns with alternating roles, each request's conversation
\* beginning with the conversation of the request before.
C15_ConversationGrows ==
    /\ Len(messages) = 2 * round_count + 1
    /\ WellFormedConversation(messages)
    /\ \A n \in 1..Len(requests) :
            /\ Len(requests[n].messages) = 2 * (n - 1) + 1
            /\ WellFormedConversation(requests[n].messages)
            /\ IsPrefix(requests[n].messages, messages)
            /\ n > 1 => IsPrefix(requests[n - 1].messages, requests[n].messages)

\* C15 witness: the third request of a query carries five turns, after two
\* rounds of which one bundled two results.
C15_Witness ==
    /\ Len(requests) = 3
    /\ Len(requests[3].messages) = 5
    /\ Len(requests[3].messages[3].content) = 2
    /\ requests[3].messages[4].role = "assistant"

\* The i-th reply got a round of tool execution.
GotRound(i) ==
    Truthy(tool_manager) /\ ReceivedInLoop(i) /\ WantsTools(replies[i])

\* The blocks of the i-th reply that _execute_tools has gone past.
BlocksPassed(i) ==
    IF pc = "tools" /\ i = Len(replies)
    THEN SubSeq(replies[i].content, 1, block_idx - 1)
    ELSE replies[i].content

\* The invocations of the first n replies that are due by now, in the order
\* the model listed them.
RECURSIVE DueInOrder(_)
DueInOrder(n) ==
    IF n = 0
    THEN <<>>
    ELSE DueInOrder(n - 1) \o
            (IF GotRound(n) THEN Invocations(BlocksPassed(n)) ELSE <<>>)

\* The call identifiers of a sequence of invocations or of tool results.
InvocationIds(inv) == [j \in 1..Len(inv) |-> inv[j].id]
ResultIds(res) == [j \in 1..Len(res) |-> res[j].tool_use_id]

\* C16: within one query model requests and tool dispatches are strictly
\* sequential. A request is issued only when the request before has been
\* answered and every invocation of that answer has been dispatched; a
\* dispatch is made only for an invocation of a reply already received; the
\* invocations of a reply are dispatched one at a time in the listed order,
\* each result recorded before the next dispatch, and the results are bundled
\* in that same order.
C16_Sequential ==
    /\ Len(replies) <= Len(requests)
    /\ Len(requests) <= Len(replies) + 1
    /\ Len(requests) > Len(replies) => (Done /\ outcome = "raised")
    /\ InvocationIds(DueInOrder(Len(replies))) = [d \in 1..Len(dispatched) |-> dispatched[d].id]
    /\ pc = "tools" =>
            /\ Len(requests) = Len(replies)
            /\ response = Last(replies)
            /\ ResultIds(tool_results) = InvocationIds(Invocations(BlocksPassed(Len(replies))))
    /\ \A n \in 2..Len(requests) :
            /\ GotRound(n - 1)
            /\ Len(requests[n].messages) = 2 * (n - 1) + 1
            /\ ResultIds(ResultTurn(requests[n].messages, n - 1).content)
                    = InvocationIds(Invocations(replies[n - 1].content))
            /\ \A b \in 1..Len(replies[n - 1].content) :
                    IsToolUse(replies[n - 1].content[b]) =>
                        DispatchCount(replies[n - 1].content[b].id) = 1

\* C16 witness: the third request was issued after a reply with two
\* invocations and a reply with one, dispatched in that order.
C16_Witness ==
    /\ Len(requests) = 3
    /\ Len(Invocations(replies[1].content)) = 2
    /\ Len(dispatched) = 3
    /\ dispatched[1].id = Invocations(replies[1].content)[1].id
    /\ dispatched[2].id = Invocations(replies[1].content)[2].id
    /\ dispatched[3].id = Invocations(replies[2].content)[1].id

\* The state of the specified machine the call is in. The loop head
\* (line 99) is AWAITING_MODEL; FORCED_FINAL, the request of line 142 in
\* flight, lies inside ForcedFinalCall.
Mode ==
    IF pc = "done" THEN "DONE"
    ELSE IF pc = "tools" THEN "EXECUTING_TOOLS"
    ELSE "AWAITING_MODEL"

RoundsRemain == round_count < MAX_TOOL_ROUNDS

\* This step issued a request and received its reply.
GotReply == Len(requests') = Len(requests) + 1 /\ Len(replies') = Len(replies) + 1

\* AWAITING_MODEL -> (no tool request) -> DONE
ToDoneOnText ==
    /\ Mode = "AWAITING_MODEL" /\ Mode' = "DONE"
    /\ RoundsRemain
    /\ GotReply
    /\ ~WantsTools(Last(replies'))

\* AWAITING_MODEL -> (tool request, rounds remain) -> EXECUTING_TOOLS
ToExecutingTools ==
    /\ Mode = "AWAITING_MODEL" /\ Mode' = "EXECUTING_TOOLS"
    /\ RoundsRemain
    /\ GotReply
    /\ WantsTools(Last(replies'))

\* Inside EXECUTING_TOOLS, one dispatch after the other.
WithinExecutingTools ==
    /\ Mode = "EXECUTING_TOOLS" /\ Mode' = "EXECUTING_TOOLS"
    /\ UNCHANGED <<requests, replies, round_count>>

\* EXECUTING_TOOLS -> AWAITING_MODEL
BackToAwaiting ==
    /\ Mode = "EXECUTING_TOOLS" /\ Mode' = "AWAITING_MODEL"
    /\ round_count' = round_count + 1
    /\ UNCHANGED <<requests, replies>>

\* AWAITING_MODEL -> (tool request, rounds exhausted) -> FORCED_FINAL -> DONE:
\* the last reply asked for tools, no round is left, one request without
\* tools is made and its reply ends the call.
ThroughForcedFinal ==
    /\ Mode = "AWAITING_MODEL" /\ Mode' = "DONE"
    /\ ~RoundsRemain
    /\ replies /= <<>> /\ WantsTools(Last(replies))
    /\ GotReply
    /\ ~OffersTools(Last(requests'))

\* AWAITING_MODEL or FORCED_FINAL -> (the model request faults) -> the call
\* ends with the fault.
ToFault ==
    /\ Mode = "AWAITING_MODEL" /\ Mode' = "DONE"
    /\ Len(requests') = Len(requests) + 1
    /\ replies' = replies
    /\ outcome' = "raised"

\* C17 as stated: every execution is a path of the machine AWAITING_MODEL ->
\* (no tool request) -> DONE; AWAITING_MODEL -> (tool request, rounds remain)
\* -> EXECUTING_TOOLS -> AWAITING_MODEL; AWAITING_MODEL -> (tool request,
\* rounds exhausted) -> FORCED_FINAL -> DONE; it starts in AWAITING_MODEL, no
\* other transition occurs and DONE is terminal. A fault of a model request,
\* which the machine does not describe, is let through.
C17_Original ==
    /\ Mode = "AWAITING_MODEL"
    /\ [][ \/ ToDoneOnText
           \/ ToExecutingTools
           \/ WithinExecutingTools
           \/ BackToAwaiting
           \/ ThroughForcedFinal
           \/ ToFault ]_vars

\* AWAITING_MODEL -> (tool request, no tool executor) -> DONE
ToDoneWithoutExecutor ==
    /\ Mode = "AWAITING_MODEL" /\ Mode' = "DONE"
    /\ RoundsRemain
    /\ GotReply
    /\ WantsTools(Last(replies'))
    /\ ~Truthy(tool_manager)
    /\ outcome' = "returned"

\* C17 amended: every execution is a path of this machine. It starts in
\* AWAITING_MODEL. From AWAITING_MODEL a reply without tool request goes to
\* DONE; a tool request with rounds remaining goes to EXECUTING_TOOLS and then
\* back to AWAITING_MODEL if a tool executor was supplied, and to DONE if none
\* was; once the rounds are exhausted (the last reply was a tool request whose
\* tools were executed) the call goes through FORCED_FINAL to DONE; a fault of
\* a model request ends the call from AWAITING_MODEL or FORCED_FINAL. No other
\* transition occurs and DONE is terminal.
C17_Amended ==
    /\ Mode = "AWAITING_MODEL"
    /\ [][ \/ ToDoneOnText /\ outcome' = "returned"
           \/ ToExecutingTools /\ Truthy(tool_manager)
           \/ WithinExecutingTools
           \/ BackToAwaiting
           \/ ThroughForcedFinal /\ outcome' = "returned"
           \/ ToDoneWithoutExecutor
           \/ ToFault ]_vars

\* C17 witness: a call that went AWAITING_MODEL, EXECUTING_TOOLS,
\* AWAITING_MODEL, EXECUTING_TOOLS, AWAITING_MODEL, FORCED_FINAL, DONE.
C17_Witness ==
    /\ Mode = "DONE"
    /\ outcome = "returned"
    /\ round_count = MAX_TOOL_ROUNDS
    /\ Len(replies) = MAX_TOOL_ROUNDS + 1
    /\ ~OffersTools(Last(requests))

\* C18: a reply whose stop reason is anything but tool_use (end_turn,
\* max_tokens or an unknown value) is treated as a text reply: its text is
\* extracted and returned at once, no tool is dispatched for it and no
\* further model call is made.
C18_OtherStopReasonIsText ==
    \A i \in 1..Len(replies) :
        replies[i].stop_reason /= "tool_use" =>
            /\ i = Len(replies)
            /\ Len(requests) = i
            /\ Done
            /\ outcome = "returned"
            /\ ~ENABLED Next
            /\ AnswerFor(replies[i], result)
            /\ \A d \in 1..Len(dispatched) :
                    \E j \in 1..(i - 1) :
                        \E b \in 1..Len(replies[j].content) :
                            /\ IsToolUse(replies[j].content[b])
                            /\ replies[j].content[b].id = dispatched[d].id

\* C18 witness: after one round the reply stopped for an unknown reason and
\* held an invocation; its absent text gave the fallback and nothing was
\* dispatched for it.
C18_Witness ==
    /\ Done
    /\ Truthy(tool_manager)
    /\ Len(replies) = 2
    /\ replies[2].stop_reason = "unknown"
    /\ Invocations(replies[2].content) /= <<>>
    /\ Len(dispatched) = Len(Invocations(replies[1].content))
    /\ Len(dispatched) >= 1

\* C18 witness for a listed stop reason: a max_tokens reply's text was
\* returned.
C18_WitnessMaxTokens ==
    /\ Done
    /\ replies /= <<>>
    /\ Last(replies).stop_reason = "max_tokens"
    /\ result = <<"a">>

\* C19: the fixed instruction text is part of the instruction context of
\* every model request of a query; the conversation history follows it, under
\* the heading "Previous conversation:", exactly when a non-empty history was
\* supplied; and the instruction context is the same in every request of the
\* query, the forced-final one included.
C19_InstructionContext ==
    \A n \in 1..Len(requests) :
        /\ IsPrefix(SYSTEM_PROMPT, requests[n].system)
        /\ IF conversation_history /= None /\ conversation_history /= <<>>
           THEN requests[n].system =
                    SYSTEM_PROMPT \o <<"\n\nPrevious conversation:\n">> \o conversation_history
           ELSE requests[n].system = SYSTEM_PROMPT
        /\ requests[n].system = requests[1].system

\* C19 witness: the forced-final request of a query with a history carries
\* the instruction text followed by the heading and the history.
C19_Witness ==
    /\ conversation_history = <<"h">>
    /\ Len(requests) = MAX_TOOL_ROUNDS + 1
    /\ ~OffersTools(Last(requests))
    /\ Last(requests).system = <<"SYSTEM_PROMPT", "\n\nPrevious conversation:\n", "h">>

\* C19 witness for the other side: an empty history is not injected.
C19_WitnessEmptyHistory ==
    /\ conversation_history = <<>>
    /\ Len(requests) >= 1
    /\ requests[1].system = SYSTEM_PROMPT

\* The positions in a bundle of results that answer a call identifier.
ResultsOf(id, res) == {j \in 1..Len(res) : res[j].tool_use_id = id}

\* The result turns of the conversation that answer a call identifier.
HoldersOf(id) ==
    {k \in ResultTurns(messages) : ResultsOf(id, messages[k].content) /= {}}

\* The call identifier has exactly one result, which is r: in the bundle of
\* the round in progress or in one result turn of the conversation.
RecordedAs(id, r) ==
    IF HoldersOf(id) = {}
    THEN /\ pc = "tools"
         /\ Cardinality(ResultsOf(id, tool_results)) = 1
         /\ \A j \in ResultsOf(id, tool_results) : tool_results[j] = r
    ELSE /\ Cardinality(HoldersOf(id)) = 1
         /\ \A k \in HoldersOf(id) :
                /\ Cardinality(ResultsOf(id, messages[k].content)) = 1
                /\ \A j \in ResultsOf(id, messages[k].content) :
                        messages[k].content[j] = r

\* C20: dispatching a tool name that is not in the registry never raises.
\* The dispatch returns a 'not found' text, which is recorded as an ordinary
\* ToolResult, without error flag, for that call identifier; the round and
\* the loop go on as after a successful dispatch: the round is completed and
\* counted, no error is noted, and the call ends only by a model reply or a
\* model fault.
C20_UnknownToolIsText ==
    /\ \A d \in 1..Len(dispatched) :
            dispatched[d].name \notin RegisteredTools(tool_manager) =>
                /\ ~dispatched[d].raised
                /\ dispatched[d].value = <<"Tool '", dispatched[d].name, "' not found">>
                /\ RecordedAs(dispatched[d].id,
                        [type |-> "tool_result", tool_use_id |-> dispatched[d].id,
                         content |-> dispatched[d].value])
    /\ RegisteredTools(tool_manager) = {} =>
            /\ ~has_error
            /\ Done \/ ENABLED Next
            /\ outcome = "raised" => ModelFaulted
            /\ \A i \in 1..Len(replies) :
                    (GotRound(i) /\ (pc /= "tools" \/ i < Len(replies))) =>
                        /\ round_count >= i
                        /\ Len(ResultTurn(messages, i).content)
                                = Len(Invocations(replies[i].content))
            /\ (Done /\ outcome = "returned") => AnswerFor(Last(replies), result)

\* C20 witness: with nothing registered, two rounds dispatched three
\* invocations, each answered 'not found', and the forced-final text was
\* returned.
C20_Witness ==
    /\ tool_manager = EmptyToolManager
    /\ Done
    /\ outcome = "returned"
    /\ round_count = MAX_TOOL_ROUNDS
    /\ Len(dispatched) = 3
    /\ \A d \in 1..3 : dispatched[d].value = ToolNotFound("search_course_content")
    /\ Len(messages[3].content) = 2
    /\ "is_error" \notin DOMAIN messages[3].content[1]
    /\ result = <<"a">>

----------------------------------------------------------------------------
(* Properties of the tool layer *)

\* The search tool of the registry.
SearchTool == registry[IndexOf(registry, "search_course_content")]

\* C21: citation replacement. After any sequence of executions of the
\* content-search tool its citation set is exactly the citations of its most
\* recent execution, one per passage of that execution's result: overwritten,
\* never appended, so that after two executions with different queries only
\* the second one's citations are visible through get_last_sources.
C21_CitationReplacement ==
    IF exec_log = <<>>
    THEN SearchTool.last_sources = <<>>
    ELSE /\ SearchTool.last_sources = Last(exec_log).sources
         /\ Len(SearchTool.last_sources) = Len(Last(exec_log).results.documents)
         /\ get_last_sources(registry) = Last(exec_log).sources

\* C21 witness: an execution that left citations was followed by one with
\* another query and one passage, and one citation is visible.
C21_Witness ==
    /\ Len(exec_log) = 2
    /\ exec_log[1].cited
    /\ exec_log[1].query /= exec_log[2].kwargs.query
    /\ Len(exec_log[2].results.documents) = 1
    /\ get_last_sources(registry) = exec_log[2].sources
    /\ Len(get_last_sources(registry)) = 1

\* C22: no stale citations. Whenever a query run through the facade has
\* returned, every citation it returned was produced by a tool execution of
\* that same query.
C22_NoStaleCitations ==
    fpc = "returned" => Range(returned) \subseteq fresh.cites

\* A query that dispatched no tool at all has returned a citation: the one
\* left behind by an earlier query that ended in a model fault.
C22_StaleCitation ==
    /\ fpc = "returned"
    /\ fresh.n = 0
    /\ fresh.cites = {}
    /\ returned /= <<>>

\* The sources a tool holds, none for a tool that keeps none.
SourcesHeld(tool) == IF KeepsSources(tool) THEN tool.last_sources ELSE <<>>

\* The number of sources held by the first i tools of a registry.
RECURSIVE SourcesBefore(_, _)
SourcesBefore(reg, i) ==
    IF i = 0 THEN 0 ELSE SourcesBefore(reg, i - 1) + Len(SourcesHeld(reg[i]))

\* C23: concatenation in registration order. The list get_last_sources
\* returns has one place for every source of every registered tool and no
\* other: the k-th source of the i-th tool stands right after all the
\* sources of the tools registered before it.
C23_Concatenation ==
    LET cs == get_last_sources(registry) IN
    /\ Len(cs) = SourcesBefore(registry, Len(registry))
    /\ \A i \in 1..Len(registry) :
        \A k \in 1..Len(SourcesHeld(registry[i])) :
            cs[SourcesBefore(registry, i - 1) + k] = SourcesHeld(registry[i])[k]

\* Two tools hold different non-empty sets, with a tool that holds none
\* registered between them.
C23_Witness ==
    /\ Len(registry) = 3
    /\ SourcesHeld(registry[1]) /= <<>>
    /\ SourcesHeld(registry[2]) = <<>>
    /\ SourcesHeld(registry[3]) /= <<>>
    /\ SourcesHeld(registry[1]) /= SourcesHeld(registry[3])
    /\ get_last_sources(registry) = SourcesHeld(registry[1]) \o SourcesHeld(registry[3])

\* The first and the last register_tool call that brought in a name.
FirstCall(name) == CHOOSE k \in 1..Len(reg_log) :
    reg_log[k] = name /\ \A j \in 1..(k - 1) : reg_log[j] /= name
LastCall(name) == CHOOSE k \in 1..Len(reg_log) :
    reg_log[k] = name /\ \A j \in (k + 1)..Len(reg_log) : reg_log[j] /= name

\* C24: one tool per name. After any sequence of register_tool calls the
\* registry holds one tool for each name that was registered and no other,
\* that tool is the one of the latest call for its name, and
\* get_tool_definitions gives one definition per registered name, in the
\* order in which the names were first registered.
C24_OneToolPerName ==
    LET defs == get_tool_definitions(registry) IN
    /\ \A i, j \in 1..Len(registry) : registry[i].name = registry[j].name => i = j
    /\ {registry[i].name : i \in 1..Len(registry)} = Range(reg_log)
    /\ \A i \in 1..Len(registry) : registry[i].inst = LastCall(registry[i].name)
    /\ Len(defs) = Cardinality(Range(reg_log))
    /\ \A i \in 1..Len(defs) : defs[i].name = registry[i].name
    /\ \A i, j \in 1..Len(defs) :
        i < j => FirstCall(defs[i].name) < FirstCall(defs[j].name)

\* A name was registered, then another, then the first one again: the
\* registry holds two tools, the first of them from the third call.
C24_Witness ==
    /\ Len(reg_log) = 3
    /\ reg_log[1] = reg_log[3]
    /\ reg_log[1] /= reg_log[2]
    /\ Len(registry) = 2
    /\ registry[1].inst = 3
    /\ registry[2].inst = 2
    /\ Len(get_tool_definitions(registry)) = 2

\* The texts the outline tool can return, for a course found or not.
OutlineTexts == {outline_execute(<<"c">>, outline) : outline \in Outlines}

\* A step in which the tool manager executed the outline tool.
OutlineStep ==
    /\ fpc = "running"
    /\ fresh'.n = fresh.n + 1
    /\ tool_text' \in OutlineTexts

\* C25: the outline tool leaves the citations alone. Over every execution of
\* the outline tool, for a course found or not, get_last_sources returns the
\* same list after the call as before it, and every tool holds the sources
\* it held.
C25_OutlineFrame ==
    [][OutlineStep =>
        /\ get_last_sources(registry') = get_last_sources(registry)
        /\ Len(registry') = Len(registry)
        /\ \A i \in 1..Len(registry) :
            SourcesHeld(registry'[i]) = SourcesHeld(registry[i])]_vars

\* The outline of a course was looked up and found, right after a search of
\* the same query had left citations behind, and the citations are there.
C25_Witness ==
    /\ fpc = "running"
    /\ fresh.n = 2
    /\ fresh.cites /= {}
    /\ tool_text = outline_execute(<<"c">>, CHOOSE o \in Outlines : o.found)
    /\ Range(get_last_sources(registry)) = fresh.cites

\* The same for a course that was not found.
C25_WitnessNotFound ==
    /\ fpc = "running"
    /\ fresh.n = 2
    /\ fresh.cites /= {}
    /\ tool_text = outline_execute(<<"c">>, [found |-> FALSE])
    /\ Range(get_last_sources(registry)) = fresh.cites

\* C26: a backend error is text. When the backend reports an error inside
\* its result, the search tool does not raise and returns the backend's
\* message as it is; generate_response records it as an ordinary
\* tool_result, without error flag, for that call identifier, notes no
\* error, completes and counts the round, and goes on to the next model
\* request: the call ends only by a model reply or a model fault.
C26_BackendErrorIsText ==
    tool_manager = BackendDownManager =>
        /\ \A d \in 1..Len(dispatched) :
            /\ ~dispatched[d].raised
            /\ dispatched[d].value \in BackendErrors
            /\ RecordedAs(dispatched[d].id,
                    [type |-> "tool_result", tool_use_id |-> dispatched[d].id,
                     content |-> dispatched[d].value])
        /\ ~has_error
        /\ \A k \in ResultTurns(messages) :
            \A j \in 1..Len(messages[k].content) :
                /\ "is_error" \notin DOMAIN messages[k].content[j]
                /\ messages[k].content[j].content \in BackendErrors
        /\ \A i \in 1..Len(replies) :
            (GotRound(i) /\ (pc /= "tools" \/ i < Len(replies))) =>
                /\ round_count >= i
                /\ Len(requests) > i \/ ENABLED Next
        /\ Done \/ ENABLED Next
        /\ outcome = "raised" => ModelFaulted

\* C26 witness: the backend failed for the searches of two rounds; each
\* message went into the conversation unflagged, a third request carried
\* them to the model, and its answer was returned.
C26_Witness ==
    /\ tool_manager = BackendDownManager
    /\ Done
    /\ outcome = "returned"
    /\ round_count = MAX_TOOL_ROUNDS
    /\ Len(requests) = MAX_TOOL_ROUNDS + 1
    /\ Len(dispatched) >= 2
    /\ \A d \in 1..Len(dispatched) :
        dispatched[d].value = <<"Search error: Connection failed">>
    /\ messages[3].content[1].content = <<"Search error: Connection failed">>
    /\ "is_error" \notin DOMAIN messages[3].content[1]

\* The search tool on its own: an execution whose result carries an error
\* did not raise and returned the error's message.
C26_ToolReturnsMessage ==
    (exec_log /= <<>> /\ Last(exec_log).results.error /= None) =>
        /\ ~Last(exec_log).raised
        /\ Last(exec_log).text = Last(exec_log).results.error
        /\ tool_text = Last(exec_log).results.error

\* The rendered text that puts the passages under the given display texts:
\* each passage under its bracketed header, blank lines between passages.
RECURSIVE RenderedUnder(_, _, _)
RenderedUnder(texts, docs, i) ==
    IF i > Len(docs)
    THEN <<>>
    ELSE (IF i > 1 THEN <<"\n\n">> ELSE <<>>)
            \o <<"[">> \o texts[i] \o <<"]", "\n">> \o docs[i]
            \o RenderedUnder(texts, docs, i + 1)

\* C27: one citation per passage. After an execution of the search tool on a
\* result with passages, last_sources holds one citation per passage, in
\* passage order; its text is the course title, followed by the lesson
\* segment exactly when the passage has a lesson number, and it is the text
\* that stands between the brackets of that passage's header in the text the
\* tool returned.
C27_CitationPerPassage ==
    (/\ exec_log /= <<>>
     /\ Last(exec_log).results.error = None
     /\ Last(exec_log).results.documents /= <<>>) =>
        LET e == Last(exec_log)
            n == Len(e.results.documents)
            cites == SearchTool.last_sources
        IN  /\ Len(cites) = n
            /\ \A i \in 1..n :
                LET meta == e.results.metadata[i] IN
                cites[i].text =
                    IF "lesson_number" \in DOMAIN meta
                    THEN meta.course_title \o <<" - Lesson ", ToString(meta.lesson_number)>>
                    ELSE meta.course_title
            /\ tool_text = RenderedUnder([i \in 1..n |-> cites[i].text], e.results.documents, 1)

\* C27 witness: a result of two passages of one course, the first without a
\* lesson number and the second of lesson 1, gave two citations in that
\* order.
C27_Witness ==
    /\ exec_log /= <<>>
    /\ Len(Last(exec_log).results.documents) = 2
    /\ Len(SearchTool.last_sources) = 2
    /\ SearchTool.last_sources[1].text = <<"T">>
    /\ SearchTool.last_sources[2].text = <<"T", " - Lesson ", "1">>
    /\ tool_text = <<"[", "T", "]", "\n", "d", "\n\n",
                     "[", "T", " - Lesson ", "1", "]", "\n", "d">>

\* The text holds the part somewhere, token for token.
Contains(text, part) ==
    \E k \in 0..(Len(text) - Len(part)) :
        \A j \in 1..Len(part) : text[k + j] = part[j]

\* C28: the message for an empty result. When the backend finds no passage
\* (and reports no error) the search tool does not raise and returns a text
\* that holds "No relevant content found", the course name whenever a course
\* filter was supplied and the lesson number whenever a lesson filter was
\* supplied.
C28_EmptyResultMessage ==
    (/\ exec_log /= <<>>
     /\ Last(exec_log).results.error = None
     /\ Last(exec_log).results.documents = <<>>) =>
        LET kwargs == Last(exec_log).kwargs IN
        /\ ~Last(exec_log).raised
        /\ Contains(tool_text, <<"No relevant content found">>)
        /\ "course_name" \in DOMAIN kwargs => Contains(tool_text, kwargs.course_name)
        /\ "lesson_number" \in DOMAIN kwargs =>
                Contains(tool_text, <<ToString(kwargs.lesson_number)>>)

\* C28 witness: a search with a course filter and a lesson filter found
\* nothing, and the message names both.
C28_Witness ==
    /\ exec_log /= <<>>
    /\ Last(exec_log).results = SearchResults(<<>>, <<>>, None)
    /\ Last(exec_log).kwargs.query = <<"q1">>
    /\ DOMAIN Last(exec_log).kwargs = {"query", "course_name", "lesson_number"}
    /\ tool_text = <<"No relevant content found", " in course '", "c", "'",
                     " in lesson ", "0", ".">>

\* The call c run alone on a generator as constructed, with the script it
\* has: its locals when it ends.
RECURSIVE RunAlone(_, _)
RunAlone(st, c) ==
    IF st.calls[c].pc = "done" THEN st.calls[c] ELSE RunAlone(step(st, c), c)

Alone(c) ==
    RunAlone(Both([k \in DOMAIN calls |-> IdleCall(k, calls[k].script)],
                  [base_params |-> base_params]), c)

\* The rounds a call has completed, counted in its own conversation.
OwnRounds(l) == IF l.messages = <<>> THEN 0 ELSE (Len(l.messages) - 1) \div 2

\* C29: concurrent calls do not interfere. Under every interleaving of two
\* calls of generate_response on one generator, each call's requests so far
\* are the first requests it issues when run alone with the same replies and
\* tool outcomes; when it has ended it has issued the same requests and ended
\* with the same answer or fault as alone; its round counter counts its own
\* rounds only and stays within the cap.
C29_Independent ==
    \A c \in DOMAIN calls :
        LET l == calls[c]
            a == Alone(c)
        IN  /\ IsPrefix(l.requests, a.requests)
            /\ l.pc = "done" =>
                    /\ l.requests = a.requests
                    /\ l.outcome = a.outcome
                    /\ l.result = a.result
                    /\ l.messages = a.messages
            /\ l.round_count = OwnRounds(l)
            /\ l.round_count <= MAX_TOOL_ROUNDS
            /\ Len(l.requests) <= MAX_TOOL_ROUNDS + 1

\* C29 witness: two calls that overlapped (each began before the other
\* ended) both went through all rounds and the request after them, with
\* different tool outcomes, and both returned.
C29_Witness ==
    /\ DOMAIN calls = Callers
    /\ \A c \in Callers :
        /\ calls[c].pc = "done"
        /\ calls[c].outcome = "returned"
        /\ calls[c].after = {}
        /\ calls[c].round_count = MAX_TOOL_ROUNDS
        /\ Len(calls[c].requests) = MAX_TOOL_ROUNDS + 1
    /\ calls[1].messages[3].content /= calls[2].messages[3].content
    /\ "is_error" \in DOMAIN calls[1].messages[3].content[1]

\* C30: no side effects. Over any calls of generate_response the generator's
\* base parameters stay as constructed, and each call's tool list and
\* history stay as passed; a call that starts, also after an earlier call on
\* the same generator has ended, has one user turn with its own query and
\* round counter 0, and its first request carries just that turn; every
\* request carries the base parameters as constructed.
C30_NoSideEffects ==
    /\ gen = [base_params |-> base_params]
    /\ \A c \in DOMAIN calls :
        LET l == calls[c]
            own == <<[role |-> "user", content |-> CallQuery(c)]>>
        IN  /\ l.tools = <<"search_course_content">>
            /\ l.conversation_history = None
            /\ l.query = CallQuery(c)
            /\ (l.pc = "loop" /\ l.requests = <<>>) =>
                    /\ l.messages = own
                    /\ l.round_count = 0
            /\ l.requests /= <<>> => l.requests[1].messages = own
            /\ \A i \in 1..Len(l.requests) :
                    /\ l.requests[i].model = base_params.model
                    /\ l.requests[i].temperature = base_params.temperature
                    /\ l.requests[i].max_tokens = base_params.max_tokens
                    /\ DOMAIN l.requests[i] \subseteq
                            DOMAIN base_params \cup {"messages", "system", "tools", "tool_choice"}

\* C30 witness: the first call went through all rounds and returned; the
\* second call began after that and has issued its first request, with its
\* own query as the only turn.
C30_Witness ==
    /\ DOMAIN calls = Callers
    /\ calls[1].pc = "done"
    /\ calls[1].outcome = "returned"
    /\ calls[1].round_count = MAX_TOOL_ROUNDS
    /\ calls[2].after = {1}
    /\ Len(calls[2].requests) = 1
    /\ calls[2].round_count = 0
    /\ calls[2].requests[1].messages = <<[role |-> "user", content |-> <<"q", "2">>]>>

\* The tool_result a dispatch calls for: the returned value as content, or
\* the error message with the flag when the dispatch raised.
ResultOfDispatch(d) ==
    IF d.raised
    THEN [type |-> "tool_result", tool_use_id |-> d.id,
          content |-> <<"Error executing tool: ">> \o d.value, is_error |-> TRUE]
    ELSE [type |-> "tool_result", tool_use_id |-> d.id, content |-> d.value]

\* The results of round r, from the log of dispatches: one per invocation
\* of the r-th reply, in the order of the invocations.
RoundResults(r) ==
    LET inv == Invocations(replies[r].content) IN
    [j \in 1..Len(inv) |->
        ResultOfDispatch(dispatched[CHOOSE d \in 1..Len(dispatched) :
                                        dispatched[d].id = inv[j].id])]

\* C31: the results of every round reach the model. After every completed
\* round the next model request has been issued, or is the step enabled
\* next, and the conversation of that request ends with the user turn that
\* holds all results of the round; for the last permitted round that request
\* is the one after the loop, without tools.
C31_ResultsDelivered ==
    \A r \in 1..round_count :
        \/ /\ Len(requests) > r
           /\ Len(requests[r + 1].messages) = 2 * r + 1
           /\ Last(requests[r + 1].messages) =
                    [role |-> "user", content |-> RoundResults(r)]
           /\ r = MAX_TOOL_ROUNDS =>
                    /\ ~OffersTools(requests[r + 1])
                    /\ Len(requests) = r + 1
        \/ /\ Len(requests) = r
           /\ r = round_count
           /\ pc = "loop"
           /\ Last(messages) = [role |-> "user", content |-> RoundResults(r)]
           /\ ENABLED (CallModel \/ ForcedFinalCall)

\* C31 witness: the last permitted round held two dispatches, one of which
\* raised; the request after the loop ended with both results and its answer
\* was returned.
C31_Witness ==
    /\ Done
    /\ outcome = "returned"
    /\ round_count = MAX_TOOL_ROUNDS
    /\ Len(requests) = MAX_TOOL_ROUNDS + 1
    /\ Len(Last(Last(requests).messages).content) = 2
    /\ HasErrorResult(Last(Last(requests).messages).content)
    /\ ~IsErrorResult(Last(Last(requests).messages).content[1])
    /\ Last(Last(requests).messages).role = "user"

\* C32: flagged if and only if raised. The tool_result recorded for a
\* dispatch carries is_error exactly when the dispatch raised; for a dispatch
\* that returned it has the three keys type, tool_use_id and content, and
\* its content is the returned text as it is, also when that text reads like
\* an error.
C32_FlaggedIffRaised ==
    /\ Len(Recorded) = Len(dispatched)
    /\ \A d \in 1..Len(dispatched) :
        LET r == Recorded[d] IN
        /\ r.tool_use_id = dispatched[d].id
        /\ "is_error" \in DOMAIN r <=> dispatched[d].raised
        /\ IsErrorResult(r) <=> dispatched[d].raised
        /\ ~dispatched[d].raised =>
                /\ DOMAIN r = {"type", "tool_use_id", "content"}
                /\ r.content = dispatched[d].value

\* C32 witness: of the two dispatches of one round the first returned and
\* the second raised; the first result is unflagged and the second flagged.
C32_Witness ==
    /\ Len(dispatched) = 2
    /\ round_count = 1
    /\ ~dispatched[1].raised
    /\ dispatched[2].raised
    /\ messages[3].content[1] =
            [type |-> "tool_result", tool_use_id |-> dispatched[1].id, content |-> <<"r">>]
    /\ IsErrorResult(messages[3].content[2])

\* The same for a returned text that reads like an error.
C32_WitnessErrorText ==
    /\ Len(dispatched) >= 1
    /\ round_count = 1
    /\ ~dispatched[1].raised
    /\ dispatched[1].value = <<"Search error: Connection failed">>
    /\ messages[3].content[1] =
            [type |-> "tool_result", tool_use_id |-> dispatched[1].id,
             content |-> <<"Search error: Connection failed">>]

\* The i-th reply came inside the loop with stop reason tool_use, an
\* executor being supplied.
ToolUseInLoop(i) ==
    /\ Truthy(tool_manager)
    /\ ReceivedInLoop(i)
    /\ replies[i].stop_reason = "tool_use"

\* The round of the i-th reply is over.
RoundOver(i) == pc /= "tools" \/ i < Len(replies)

\* The dispatches made for the invocations of a reply content.
DispatchesFor(content) ==
    {d \in 1..Len(dispatched) :
        \E b \in 1..Len(content) :
            IsToolUse(content[b]) /\ content[b].id = dispatched[d].id}

\* C33: every tool_use reply consumes a round. Each reply received inside
\* the loop with stop reason tool_use, an executor being supplied, gets a
\* round whatever number of tool_use blocks it holds: as many dispatches as
\* it has tool_use blocks, its content appended as assistant turn, a user
\* turn with as many results (an empty list for no block), and the round
\* counter incremented; the counter is the number of such replies dealt with.
C33_RoundPerToolUseReply ==
    /\ \A i \in 1..Len(replies) :
        (ToolUseInLoop(i) /\ RoundOver(i)) =>
            /\ round_count >= i
            /\ Cardinality(DispatchesFor(replies[i].content))
                    = ToolUseCount(replies[i].content)
            /\ AssistantTurn(messages, i) =
                    [role |-> "assistant", content |-> replies[i].content]
            /\ ResultTurn(messages, i).role = "user"
            /\ Len(ResultTurn(messages, i).content) = ToolUseCount(replies[i].content)
            /\ ToolUseCount(replies[i].content) = 0 =>
                    ResultTurn(messages, i) = [role |-> "user", content |-> <<>>]
    /\ round_count =
            Cardinality({i \in 1..Len(replies) : ToolUseInLoop(i) /\ RoundOver(i)})

\* C33 witness: the first reply had stop reason tool_use and a text block
\* only; nothing was dispatched, the round was appended with an empty result
\* list and counted, and the second request carried it.
C33_Witness ==
    /\ Len(replies) >= 1
    /\ replies[1].stop_reason = "tool_use"
    /\ replies[1].content /= <<>>
    /\ ToolUseCount(replies[1].content) = 0
    /\ round_count = 1
    /\ dispatched = <<>>
    /\ Len(requests) = 2
    /\ requests[2].messages[3] = [role |-> "user", content |-> <<>>]

\* The same for a reply with no content at all.
C33_WitnessNoContent ==
    /\ Len(replies) >= 1
    /\ replies[1].stop_reason = "tool_use"
    /\ replies[1].content = <<>>
    /\ round_count = 1
    /\ dispatched = <<>>
    /\ messages[2] = [role |-> "assistant", content |-> <<>>]
    /\ messages[3] = [role |-> "user", content |-> <<>>]

\* The reply content holds a text block and a tool_use block.
Mixed(content) ==
    /\ \E b \in 1..Len(content) : IsToolUse(content[b])
    /\ \E b \in 1..Len(content) : ~IsToolUse(content[b])

\* C34: text blocks beside invocations. For a tool_use reply that mixes text
\* blocks with tool_use blocks, the dispatches made are exactly those of its
\* tool_use blocks, each with the block's name and input; the results answer
\* the tool_use blocks one for one, in order, and no result stands for a
\* text block; the assistant turn appended is the whole content of the reply,
\* text and invocations in the model's order.
C34_TextBlocksPassOver ==
    /\ \A i \in 1..Len(replies) :
        (ToolUseInLoop(i) /\ RoundOver(i) /\ Mixed(replies[i].content)) =>
            LET content == replies[i].content
                inv == Invocations(content)
                res == ResultTurn(messages, i).content
            IN  /\ AssistantTurn(messages, i) = [role |-> "assistant", content |-> content]
                /\ Len(AssistantTurn(messages, i).content) > Len(res)
                /\ ResultIds(res) = InvocationIds(inv)
                /\ Cardinality(DispatchesFor(content)) = Len(inv)
                /\ \A d \in DispatchesFor(content) :
                    \E j \in 1..Len(inv) :
                        /\ dispatched[d].id = inv[j].id
                        /\ dispatched[d].name = inv[j].name
                        /\ dispatched[d].input = inv[j].input
    /\ \A d \in 1..Len(dispatched) :
        \E i \in 1..Len(replies) : d \in DispatchesFor(replies[i].content)
    /\ (pc = "tools" /\ Mixed(response.content)) =>
            ResultIds(tool_results) =
                InvocationIds(Invocations(SubSeq(response.content, 1, block_idx - 1)))

\* C34 witness: the first reply held a text, an invocation and another
\* text; one dispatch was made, the assistant turn has the three blocks and
\* the user turn the one result.
C34_Witness ==
    /\ round_count >= 1
    /\ Len(replies[1].content) = 3
    /\ ~IsToolUse(replies[1].content[1])
    /\ IsToolUse(replies[1].content[2])
    /\ ~IsToolUse(replies[1].content[3])
    /\ messages[2].content = replies[1].content
    /\ Len(messages[3].content) = 1
    /\ messages[3].content[1].tool_use_id = replies[1].content[2].id
    /\ Len(dispatched) = 1

\* The call returned an answer.
Returned == Done /\ outcome = "returned"

\* C35: the answer is the first text. On every exit that returns, the answer
\* is taken from the last reply received: it is the text of the first of its
\* blocks that carries a text, whatever blocks come before and after, and it
\* is the fallback "Unable to generate a response." exactly when the reply
\* has no content or no block with a text.
C35_FirstTextOrFallback ==
    Returned =>
        /\ replies /= <<>>
        /\ Len(replies) = Len(requests)
        /\ LET content == Last(replies).content
               texts == {b \in 1..Len(content) : "text" \in DOMAIN content[b]}
           IN  /\ texts /= {} =>
                    \E b \in texts :
                        /\ \A k \in texts : b <= k
                        /\ result = content[b].text
               /\ texts = {} <=> result = <<"Unable to generate a response.">>

\* C35 witness: without executor, a first reply that asks for tools and
\* holds tool_use blocks only ended the call with the fallback.
C35_Witness ==
    /\ Returned
    /\ ~Truthy(tool_manager)
    /\ Len(replies) = 1
    /\ replies[1].stop_reason = "tool_use"
    /\ replies[1].content /= <<>>
    /\ \A b \in 1..Len(replies[1].content) : IsToolUse(replies[1].content[b])
    /\ result = <<"Unable to generate a response.">>

\* The answer after the loop came from a reply with an invocation first and
\* two different texts after it: the first of the texts was returned.
C35_WitnessLaterText ==
    /\ Returned
    /\ round_count = MAX_TOOL_ROUNDS
    /\ Len(Last(replies).content) = 3
    /\ IsToolUse(Last(replies).content[1])
    /\ Last(replies).content[2] = TextBlock(<<"a">>)
    /\ Last(replies).content[3] = TextBlock(<<>>)
    /\ result = <<"a">>

\* A reply without content ended the call with the fallback.
C35_WitnessNoContent ==
    /\ Returned
    /\ Last(replies).content = <<>>
    /\ result = <<"Unable to generate a response.">>

\* C36: the query is passed through. For every query, the empty string
\* included, the conversation and the conversation of every model request
\* begin with a user turn that holds the query as given; the call is never
\* ended before its first request, and it raises only when a model request
\* faults.
C36_QueryPassedThrough ==
    /\ messages /= <<>>
    /\ messages[1] = [role |-> "user", content |-> query]
    /\ \A n \in 1..Len(requests) :
        /\ requests[n].messages /= <<>>
        /\ requests[n].messages[1] = [role |-> "user", content |-> query]
    /\ requests = <<>> => (~Done /\ ENABLED CallModel)
    /\ outcome = "raised" => ModelFaulted

\* C36 witness: a call with the empty string as query went through all
\* rounds and returned; its three requests all begin with the empty query.
C36_Witness ==
    /\ query = <<>>
    /\ Returned
    /\ Len(requests) = MAX_TOOL_ROUNDS + 1
    /\ \A n \in 1..Len(requests) :
        requests[n].messages[1] = [role |-> "user", content |-> <<>>]
    /\ result = <<"a">>

\* A dispatch for an invocation of the content raised.
SomeRaised(content) == \E d \in DispatchesFor(content) : dispatched[d].raised

\* C37: has_error and the control flow. has_error is true exactly when a
\* dispatch for an invocation of the reply raised: while _execute_tools runs,
\* over the blocks it has gone past, and after it, over the whole reply of
\* the latest round. The flag decides nothing: whatever its value, the round
\* is counted, the loop head issues an in-loop request while the counter is
\* below the cap and the request after the loop otherwise, and a finished
\* pass over the blocks is followed by the end of the round.
C37_ErrorFlag ==
    /\ pc = "tools" =>
        (has_error <=> SomeRaised(SubSeq(response.content, 1, block_idx - 1)))
    /\ (pc /= "tools" /\ round_count >= 1) =>
        (has_error <=> SomeRaised(replies[round_count].content))
    /\ (pc /= "tools" /\ round_count = 0) => ~has_error
    /\ round_count = RoundsIn(messages)
    /\ pc = "loop" =>
        /\ ENABLED CallModel <=> round_count < MAX_TOOL_ROUNDS
        /\ ENABLED ForcedFinalCall <=> round_count >= MAX_TOOL_ROUNDS
    /\ (pc = "tools" /\ block_idx > Len(response.content)) => ENABLED FinishRound
    /\ \A n \in 2..Len(requests) :
        OffersTools(requests[n]) <=> (Truthy(tools) /\ n <= MAX_TOOL_ROUNDS)

\* C37 witness: the first round ended with has_error set, and the loop is
\* about to issue its next in-loop request as after any round.
C37_Witness ==
    /\ pc = "loop"
    /\ round_count = 1
    /\ has_error
    /\ HasErrorResult(messages[3].content)
    /\ ENABLED CallModel
    /\ ~ENABLED ForcedFinalCall

\* A round with an error was followed by a round without: the flag went
\* back to false and both rounds were counted.
C37_WitnessCleared ==
    /\ Returned
    /\ round_count = 2
    /\ HasErrorResult(messages[3].content)
    /\ messages[5].content /= <<>>
    /\ ~HasErrorResult(messages[5].content)
    /\ ~has_error
    /\ Len(requests) = 3
====
